---- MODULE Spec2Model ----
(***************************************************************************)
(* Model of survey_handler.py: the survey state machine of the bot (demo   *)
(* questions, confirmation step, fixed-choice inventory, completion with   *)
(* the profile gateway) and the handlers that share the session with it.   *)
(*                                                                         *)
(* Texts are sequences of one-character strings.  Only the Latin letters   *)
(* a-d / A-D, the colon and the space are told apart by the answer parser; *)
(* every other character (Cyrillic letters, emoji, punctuation) behaves    *)
(* alike and is written with a placeholder: "y"/"Y" (a letter and its      *)
(* upper case), "x" (the cross emoji), "v" (the check-mark emoji), ...     *)
(* message.text is a string (text messages only); sending a message to     *)
(* the user always succeeds.                                               *)
(***************************************************************************)
EXTENDS Integers, Sequences, FiniteSets, TLC

(***************************************************************************)
(* Bounds of the model.                                                    *)
(***************************************************************************)
NumDemo == 2          \* length of the demo question list of the catalog
NumVasini == 2        \* length of the inventory list (34 in production)
MaxTextLen == 4       \* longest message text drawn by the parser specification
MaxAdvice == 1        \* advice requests modelled per stored history
MaxInflight == 2      \* invocations of process_survey_answer in flight at once
PoolSize == 2         \* entries kept of each list of the advice tables
MaxSeedLen == 3       \* period of the outcomes of random.choice
MaxProfileLen == 3    \* longest profile text drawn for extract_key_aspects
MaxRequests == 2      \* advice requests made after the history was pre-filled
MaxLines == 3         \* lines of a profile text given to the splitting loop

(***************************************************************************)
(* Strings.                                                                *)
(***************************************************************************)
\* str.upper() on one character
Upper(c) ==
  CASE c = "a" -> "A"
    [] c = "b" -> "B"
    [] c = "c" -> "C"
    [] c = "d" -> "D"
    [] c = "y" -> "Y"
    [] OTHER -> c

\* str.upper()
UpperStr(s) == [i \in 1..Len(s) |-> Upper(s[i])]

\* str.startswith(p)
StartsWith(s, p) == Len(s) >= Len(p) /\ SubSeq(s, 1, Len(p)) = p

\* p in s
Contains(s, p) == \E i \in 1..(Len(s) - Len(p) + 1) : SubSeq(s, i, i + Len(p) - 1) = p

\* the literals of the handlers
CancelText == <<"x", " ", "o">>        \* "<cross> Otmenit' opros"
YesText == <<"v", " ", "y">>           \* "<check> Da, gotov(a)"

(***************************************************************************)
(* The answer parser of process_survey_answer (lines 322-345).             *)
(***************************************************************************)
Letters == <<"A", "B", "C", "D">>
NoOption == "None"

\* the four checks made for one letter, numbered as in the if/elif chain
MatchesRule(r, opt, text) ==
  CASE r = 1 -> StartsWith(text, <<opt, ":">>)
    [] r = 2 -> StartsWith(text, <<opt, " ">>)
    [] r = 3 -> UpperStr(text) = <<opt>>
    [] r = 4 -> Contains(<<" ">> \o UpperStr(text) \o <<" ">>, <<" ", opt, " ">>)

MatchesLetter(opt, text) == \E r \in 1..4 : MatchesRule(r, opt, text)

RECURSIVE ParseFrom(_, _)
ParseFrom(i, text) ==
  IF i > Len(Letters) THEN NoOption
  ELSE IF MatchesLetter(Letters[i], text) THEN Letters[i]
  ELSE ParseFrom(i + 1, text)

\* for opt in ["A", "B", "C", "D"]: ... break
parse_option(text) == ParseFrom(1, text)

(***************************************************************************)
(* The question catalog (module questions) and the answer classifier.      *)
(***************************************************************************)
\* get_demo_questions(): ordered records with distinct ids
demo_questions == [i \in 1..NumDemo |-> [id |-> <<"demo", i>>]]

\* get_all_vasini_questions(): fixed-choice records, options and
\* interpretations keyed by the four letters
vasini_questions ==
  [i \in 1..NumVasini |->
    [id |-> <<"vasini", i>>,
     options |-> {"A", "B", "C", "D"},
     interpretations |-> {"A", "B", "C", "D"}]]

Types == <<"Intellectual", "Emotional", "Practical", "Creative", "Analytical">>
TypeSet == {Types[i] : i \in 1..Len(Types)}
NoType == "None"

\* the catalog's option -> type mapping
OptionType(opt) ==
  CASE opt = "A" -> "Intellectual"
    [] opt = "B" -> "Emotional"
    [] opt = "C" -> "Practical"
    [] OTHER -> "Creative"

\* tally of the inventory answers per type (demo answers are ignored)
TypeCounts(answers) ==
  [t \in TypeSet |->
    Cardinality({i \in 1..Len(answers) :
                   /\ answers[i].id[1] = "vasini"
                   /\ Len(answers[i].val) = 1
                   /\ answers[i].val[1] \in {"A", "B", "C", "D"}
                   /\ OptionType(answers[i].val[1]) = t})]

\* index of the first type, in enumeration order and outside excl, that has
\* the greatest count
FirstMax(counts, excl) ==
  CHOOSE i \in (1..Len(Types)) \ excl :
    /\ \A j \in (1..Len(Types)) \ excl : counts[Types[j]] <= counts[Types[i]]
    /\ \A j \in (1..(i - 1)) \ excl : counts[Types[j]] < counts[Types[i]]

\* get_personality_type_from_answers(answers) -> counts, primary, secondary
get_personality_type_from_answers(answers) ==
  LET counts == TypeCounts(answers)
      p == FirstMax(counts, {})
  IN [type_counts |-> counts,
      primary_type |-> Types[p],
      secondary_type |-> Types[FirstMax(counts, {p})]]

(***************************************************************************)
(* The session store (FSMContext): an FSM state and a key/value mapping.   *)
(* keys is the set of keys present; data holds a canonical value for the   *)
(* keys that are absent.                                                   *)
(***************************************************************************)
StateNone == "None"                         \* no FSM state (idle)
StateAnswering == "answering_questions"     \* SurveyStates.answering_questions
StateViewing == "viewing"                   \* ProfileStates.viewing

Keys == {"question_index", "question_type", "answers", "is_demo_questions",
         "waiting_for_vasini_confirmation", "profile_completed", "profile_text",
         "profile_details", "personality_type", "secondary_type", "type_counts",
         "used_advices"}

NoCounts == [t \in TypeSet |-> 0]

EmptyData ==
  [question_index |-> 0, question_type |-> "", answers |-> <<>>,
   is_demo_questions |-> TRUE, waiting_for_vasini_confirmation |-> FALSE,
   profile_completed |-> FALSE, profile_text |-> <<>>, profile_details |-> <<>>,
   personality_type |-> NoType, secondary_type |-> NoType,
   type_counts |-> NoCounts, used_advices |-> <<>>]

NoCall == [active |-> FALSE, answers |-> <<>>, type_counts |-> NoCounts,
           primary_type |-> NoType, secondary_type |-> NoType]

\* an outbound message: what is shown, for which question, for which option
Msg(kind, idx, opt) == [kind |-> kind, idx |-> idx, opt |-> opt]

\* data.get(key, default)
Get(c, key, default) == IF key \in c.keys THEN c.data[key] ELSE default

\* message.answer(...) / callback.message.answer(...)
Say(c, m) == [c EXCEPT !.out = Append(c.out, m)]

\* state.set_state(st)
SetState(c, st) == [c EXCEPT !.state = st, !.state_set = TRUE]

\* state.update_data(**upd): merges upd into the stored mapping
UpdateData(c, upd) ==
  [c EXCEPT !.keys = c.keys \cup DOMAIN upd,
            !.data = [k \in Keys |-> IF k \in DOMAIN upd THEN upd[k] ELSE c.data[k]],
            !.written = c.written \cup DOMAIN upd]

\* state.clear(): no FSM state, empty mapping
Clear(c) == [c EXCEPT !.state = StateNone, !.keys = {}, !.data = EmptyData,
                      !.written = {}, !.cleared = TRUE, !.state_set = TRUE]

\* an exception that leaves the handler: what was done so far stays done
Raise(c) == [c EXCEPT !.out = Append(c.out, Msg("unhandled_exception", 0, ""))]

\* answers = {question_id: value}
DictSet_Replace(d, k, v) == <<[id |-> k, val |-> v]>>

\* answers[question_id] = value on a dict that keeps insertion order
DictSet(d, k, v) ==
  IF \E i \in 1..Len(d) : d[i].id = k
  THEN [i \in 1..Len(d) |-> IF d[i].id = k THEN [id |-> k, val |-> v] ELSE d[i]]
  ELSE Append(d, [id |-> k, val |-> v])

(***************************************************************************)
(* Handlers.  A handler maps a context c (the session, the messages sent   *)
(* so far by this handler, the gateway call in flight) to the context it   *)
(* leaves behind.  The context also keeps which store operations the       *)
(* handler made: the keys it wrote with update_data, whether it cleared    *)
(* the store, whether it set the FSM state.                                *)
(***************************************************************************)
\* start_survey without the test of profile_completed
start_survey_NoConfirm(c) ==
  IF Len(demo_questions) = 0 THEN Raise(c)
  ELSE UpdateData(
         SetState(Say(Say(c, Msg("survey_intro", 0, "")), Msg("demo_question", 0, "")),
                  StateAnswering),
         [question_index |-> 0, question_type |-> "demo", answers |-> <<>>,
          is_demo_questions |-> TRUE])

\* start_survey(message, state)
start_survey(c) ==
  IF Get(c, "profile_completed", FALSE)
  THEN Say(c, Msg("confirm_restart_prompt", 0, ""))
  ELSE IF Len(demo_questions) = 0 THEN Raise(c)
  ELSE UpdateData(
         SetState(Say(Say(c, Msg("survey_intro", 0, "")), Msg("demo_question", 0, "")),
                  StateAnswering),
         [question_index |-> 0, question_type |-> "demo", answers |-> <<>>,
          is_demo_questions |-> TRUE])

\* confirm_restart_survey: callback confirm_survey
confirm_restart_survey(c) ==
  start_survey(UpdateData(c, [answers |-> <<>>, profile_completed |-> FALSE,
                              profile_text |-> <<>>, personality_type |-> NoType]))

\* cancel_restart_survey: callback cancel_survey
cancel_restart_survey(c) == Say(c, Msg("restart_cancelled", 0, ""))

\* complete_survey storing profile_completed before the gateway is called
complete_survey_MarkEarly(c, answers) ==
  LET cls == get_personality_type_from_answers(answers)
  IN [UpdateData(Say(c, Msg("processing", 0, "")), [profile_completed |-> TRUE]) EXCEPT
        !.call = [active |-> TRUE, answers |-> answers,
                  type_counts |-> cls.type_counts,
                  primary_type |-> cls.primary_type,
                  secondary_type |-> cls.secondary_type]]

\* complete_survey up to the await of generate_profile(answers)
complete_survey(c, answers) ==
  LET cls == get_personality_type_from_answers(answers)
  IN [Say(c, Msg("processing", 0, "")) EXCEPT
        !.call = [active |-> TRUE, answers |-> answers,
                  type_counts |-> cls.type_counts,
                  primary_type |-> cls.primary_type,
                  secondary_type |-> cls.secondary_type]]

\* CompletionFailed without state.clear()
CompletionFailed_KeepState(c) ==
  [Say(Say(c, Msg("generation_error", 0, "")), Msg("main_menu", 0, ""))
     EXCEPT !.call = NoCall]

\* complete_survey, the except branch (lines 554-571)
CompletionFailed(c) ==
  [Clear(Say(Say(c, Msg("generation_error", 0, "")), Msg("main_menu", 0, "")))
     EXCEPT !.call = NoCall]

\* complete_survey taking every return of generate_profile for a failure
complete_survey_return_AlwaysFails(c, resp) == CompletionFailed(c)

\* complete_survey from the return of generate_profile: resp.ok is FALSE when
\* the call raised, resp.has tells whether the response has a 'details' key
complete_survey_return(c, resp) ==
  IF resp.ok
  THEN LET detailed_profile == IF resp.has THEN resp.details ELSE <<>>
           stored == UpdateData(SetState(c, StateNone),
                       [answers |-> c.call.answers,
                        profile_completed |-> TRUE,
                        profile_details |-> detailed_profile,
                        profile_text |-> detailed_profile,
                        personality_type |-> c.call.primary_type,
                        secondary_type |-> c.call.secondary_type,
                        type_counts |-> c.call.type_counts])
       IN [Say(Say(stored, Msg("profile", 0, "")), Msg("main_menu", 0, ""))
             EXCEPT !.call = NoCall]
  ELSE CompletionFailed(c)

\* CancelSurvey leaving the idle state but keeping the stored mapping
CancelSurvey_KeepData(c) ==
  Say(SetState(c, StateNone), Msg("survey_cancelled", 0, ""))

\* process_survey_answer, the cancel text (lines 180-187)
CancelSurvey(c) == Say(Clear(c), Msg("survey_cancelled", 0, ""))

\* AnswerDemo recording the answer under the id of the question after
\* the one at the cursor
AnswerDemo_WrongId(c, text, question_index, answers) ==
  IF question_index >= Len(demo_questions) THEN Raise(c)
  ELSE LET answers2 == DictSet(answers, <<"demo", question_index + 2>>, text)
           next_index == question_index + 1
       IN IF next_index >= Len(demo_questions)
          THEN UpdateData(Say(c, Msg("vasini_intro", 0, "")),
                 [question_index |-> 0, answers |-> answers2,
                  is_demo_questions |-> FALSE,
                  waiting_for_vasini_confirmation |-> TRUE])
          ELSE UpdateData(Say(c, Msg("demo_question", next_index, "")),
                 [question_index |-> next_index, answers |-> answers2,
                  is_demo_questions |-> TRUE])

\* AnswerDemo leaving the cursor where the last demo question put it
AnswerDemo_NoReset(c, text, question_index, answers) ==
  IF question_index >= Len(demo_questions) THEN Raise(c)
  ELSE LET question_id == demo_questions[question_index + 1].id
           answers2 == DictSet(answers, question_id, text)
           next_index == question_index + 1
       IN IF next_index >= Len(demo_questions)
          THEN UpdateData(Say(c, Msg("vasini_intro", 0, "")),
                 [question_index |-> next_index, answers |-> answers2,
                  is_demo_questions |-> FALSE,
                  waiting_for_vasini_confirmation |-> TRUE])
          ELSE UpdateData(Say(c, Msg("demo_question", next_index, "")),
                 [question_index |-> next_index, answers |-> answers2,
                  is_demo_questions |-> TRUE])

\* AnswerDemo moving the cursor on without recording the answer
AnswerDemo_Unrecorded(c, text, question_index, answers) ==
  IF question_index >= Len(demo_questions) THEN Raise(c)
  ELSE UpdateData(Say(c, Msg("demo_question", question_index + 1, "")),
                  [question_index |-> question_index + 1, answers |-> answers,
                   is_demo_questions |-> TRUE])

\* process_survey_answer, demo phase (lines 211-249 and 399-441)
AnswerDemo(c, text, question_index, answers) ==
  IF question_index >= Len(demo_questions) THEN Raise(c)
  ELSE LET question_id == demo_questions[question_index + 1].id
           answers2 == DictSet(answers, question_id, text)
           next_index == question_index + 1
       IN IF next_index >= Len(demo_questions)
          THEN UpdateData(Say(c, Msg("vasini_intro", 0, "")),
                 [question_index |-> 0, answers |-> answers2,
                  is_demo_questions |-> FALSE,
                  waiting_for_vasini_confirmation |-> TRUE])
          ELSE UpdateData(Say(c, Msg("demo_question", next_index, "")),
                 [question_index |-> next_index, answers |-> answers2,
                  is_demo_questions |-> TRUE])

\* AnswerConfirmation taking every text but the cancel text for the
\* confirmation
AnswerConfirmation_AnyTextStarts(c, text, question_index) ==
  IF text = CancelText
  THEN Say(Clear(c), Msg("survey_cancelled", 0, ""))
  ELSE IF question_index >= Len(vasini_questions) THEN Raise(c)
  ELSE UpdateData(Say(c, Msg("vasini_question", question_index, "")),
                  [waiting_for_vasini_confirmation |-> FALSE])

\* AnswerConfirmation taking the affirmative text for the first answer
AnswerConfirmation_RecordsYes(c, text, question_index) ==
  IF text = YesText
  THEN IF question_index >= Len(vasini_questions) THEN Raise(c)
       ELSE UpdateData(Say(c, Msg("vasini_question", question_index, "")),
                       [waiting_for_vasini_confirmation |-> FALSE,
                        answers |-> DictSet(Get(c, "answers", <<>>),
                                            vasini_questions[question_index + 1].id,
                                            text)])
  ELSE IF text = CancelText
  THEN Say(Clear(c), Msg("survey_cancelled", 0, ""))
  ELSE Raise(c)

\* process_survey_answer, confirmation step (lines 252-314); current_question
\* is not bound when the last branch reads it
AnswerConfirmation(c, text, question_index) ==
  IF text = YesText
  THEN IF question_index >= Len(vasini_questions) THEN Raise(c)
       ELSE UpdateData(Say(c, Msg("vasini_question", question_index, "")),
                       [waiting_for_vasini_confirmation |-> FALSE])
  ELSE IF text = CancelText
  THEN Say(Clear(c), Msg("survey_cancelled", 0, ""))
  ELSE Raise(c)

\* RepromptVasini with the cursor written back one further
RepromptVasini_Advance(c, question_index) ==
  UpdateData(Say(c, Msg("vasini_reprompt", question_index, "")),
             [question_index |-> question_index + 1])

\* process_survey_answer, the answer was not recognised (lines 347-373)
RepromptVasini(c, question_index) ==
  Say(c, Msg("vasini_reprompt", question_index, ""))

\* AnswerVasini recording the message instead of the letter parsed from it
AnswerVasini_RawText(c, text, question_index, answers) ==
  IF question_index >= Len(vasini_questions) THEN Raise(c)
  ELSE LET current_question == vasini_questions[question_index + 1]
           option == parse_option(text)
       IN IF option = NoOption
          THEN RepromptVasini(c, question_index)
          ELSE LET answers2 == DictSet(answers, current_question.id, text)
                   c1 == IF option \in current_question.interpretations
                         THEN Say(c, Msg("interpretation", question_index, option))
                         ELSE c
                   next_index == question_index + 1
               IN IF next_index >= Len(vasini_questions)
                  THEN complete_survey(c1, answers2)
                  ELSE UpdateData(Say(c1, Msg("vasini_question", next_index, "")),
                         [question_index |-> next_index, answers |-> answers2,
                          is_demo_questions |-> FALSE])

\* process_survey_answer, inventory phase (lines 316-397 and 411-441), for
\* the list get_all_vasini_questions() returned; a failure to send the
\* interpretation, a missing key included, is logged and passed over
\* (lines 380-389)
AnswerVasiniIn(questions, c, text, question_index, answers) ==
  IF question_index >= Len(questions) THEN Raise(c)
  ELSE LET current_question == questions[question_index + 1]
           option == parse_option(text)
       IN IF option = NoOption
          THEN RepromptVasini(c, question_index)
          ELSE LET answers2 == DictSet(answers, current_question.id, <<option>>)
                   c1 == IF option \in current_question.interpretations
                         THEN Say(c, Msg("interpretation", question_index, option))
                         ELSE c
                   next_index == question_index + 1
               IN IF next_index >= Len(questions)
                  THEN complete_survey(c1, answers2)
                  ELSE UpdateData(Say(c1, Msg("vasini_question", next_index, "")),
                         [question_index |-> next_index, answers |-> answers2,
                          is_demo_questions |-> FALSE])

\* process_survey_answer, inventory phase, with the catalog as specified
AnswerVasini(c, text, question_index, answers) ==
  AnswerVasiniIn(vasini_questions, c, text, question_index, answers)

\* process_survey_answer(message, state)
process_survey_answer(c, text) ==
  IF text = CancelText
  THEN CancelSurvey(c)
  ELSE LET question_index == Get(c, "question_index", 0)
           answers == Get(c, "answers", <<>>)
           is_demo_questions == Get(c, "is_demo_questions", TRUE)
       IN IF is_demo_questions
          THEN AnswerDemo(c, text, question_index, answers)
          ELSE IF Get(c, "waiting_for_vasini_confirmation", FALSE)
          THEN AnswerConfirmation(c, text, question_index)
          ELSE AnswerVasini(c, text, question_index, answers)

MinDetailsLen == 20        \* len(details_text) < 20
HistoryCap == 20           \* used_advices[-20:]

\* the test of the text without the test of its length
DetailsMissing_EmptyOnly(details_text) == details_text = <<>>

\* not details_text or len(details_text) < 20
DetailsMissing(details_text) == details_text = <<>> \/ Len(details_text) < MinDetailsLen

\* restart_survey: callback restart_survey
restart_survey(c) == Say(c, Msg("confirm_reset_prompt", 0, ""))

\* confirm_profile_reset: callback confirm_profile_reset
confirm_profile_reset(c) ==
  start_survey(
    Say(UpdateData(c, [answers |-> <<>>, profile_completed |-> FALSE,
                       profile_text |-> <<>>, profile_details |-> <<>>,
                       personality_type |-> NoType,
                       waiting_for_vasini_confirmation |-> FALSE,
                       question_index |-> 0, is_demo_questions |-> TRUE]),
        Msg("profile_reset", 0, "")))

\* cancel_profile_reset: callback cancel_profile_reset
cancel_profile_reset(c) == Say(c, Msg("reset_cancelled", 0, ""))

\* show_profile_details: callback show_details
show_profile_details(c) ==
  IF DetailsMissing(Get(c, "profile_details", <<>>))
  THEN Say(c, Msg("profile_not_found", 0, ""))
  ELSE Say(Say(c, Msg("profile", 0, "")), Msg("main_menu", 0, ""))

\* view_profile_callback: callback view_profile
view_profile_callback(c) ==
  IF ~Get(c, "profile_completed", FALSE)
  THEN Say(Say(c, Msg("no_profile", 0, "")), Msg("main_menu", 0, ""))
  ELSE IF DetailsMissing(Get(c, "profile_details", <<>>))
  THEN Say(c, Msg("profile_not_found", 0, ""))
  ELSE Say(Say(c, Msg("profile", 0, "")), Msg("main_menu", 0, ""))

\* command_survey: /survey and the survey button
command_survey(c) == start_survey(c)

\* command_profile: /profile and the profile button
command_profile(c) ==
  IF Get(c, "profile_completed", FALSE)
  THEN IF DetailsMissing(Get(c, "profile_details", <<>>))
       THEN Say(c, Msg("profile_not_found", 0, ""))
       ELSE SetState(Say(c, Msg("profile", 0, "")), StateViewing)
  ELSE Say(c, Msg("no_profile", 0, ""))

\* cancel_survey_command without the test of the FSM state
cancel_survey_command_Always(c) == Say(Clear(c), Msg("survey_cancelled", 0, ""))

\* cancel_survey_command: /cancel and the short cancel text
cancel_survey_command(c) ==
  IF c.state = StateAnswering
  THEN Say(Clear(c), Msg("survey_cancelled", 0, ""))
  ELSE Say(c, Msg("no_active_survey", 0, ""))

\* back_to_main_menu: callback main_menu
back_to_main_menu(c) == Say(SetState(c, StateNone), Msg("main_menu", 0, ""))

\* the history cut to its first 20 entries
AppendAdvice_KeepOldest(used_advices, advice) ==
  LET h == Append(used_advices, advice)
  IN IF Len(h) > HistoryCap THEN SubSeq(h, 1, HistoryCap) ELSE h

\* used_advices.append(advice); used_advices = used_advices[-20:]
AppendAdvice(used_advices, advice) ==
  LET h == Append(used_advices, advice)
  IN IF Len(h) > HistoryCap THEN SubSeq(h, Len(h) - HistoryCap + 1, Len(h)) ELSE h

\* get_advice_callback: callback get_advice; advice is what
\* get_personalized_advice returned
get_advice_callback(c, advice) ==
  Say(Say(Say(UpdateData(c, [used_advices |->
                               AppendAdvice(Get(c, "used_advices", <<>>), advice)]),
              Msg("advice", 0, "")),
          Msg("advice_followup", 0, "")),
      Msg("main_menu", 0, ""))

\* command_advice: /advice and the advice button
command_advice(c, advice) ==
  IF Get(c, "profile_completed", FALSE)
  THEN Say(Say(UpdateData(c, [used_advices |->
                                AppendAdvice(Get(c, "used_advices", <<>>), advice)]),
               Msg("advice", 0, "")),
           Msg("advice_followup", 0, ""))
  ELSE Say(c, Msg("no_profile", 0, ""))

\* start_survey_callback: callback start_survey
start_survey_callback(c) == start_survey(c)

(***************************************************************************)
(* The state machine.                                                      *)
(***************************************************************************)
VARIABLES
  session,   \* the user's FSMContext: [state, keys, data]
  out,       \* the messages sent by the handler that ran last
  call,      \* the generate_profile call complete_survey is waiting for
  ev,        \* the handler that ran last, its text and the gateway's result
  inflight,  \* invocations of process_survey_answer that have read the data
             \* and not yet written it back
  hist,      \* what happened since the survey run began / the advice issued
  peer,      \* the FSMContext of a second user
  calc       \* a call of a function of the advice engine or of the chunking
             \* loop: its arguments and what it returned

vars == <<session, out, call, ev, inflight, hist, peer, calc>>

\* the values of the variables a specification does not use
NoHist == [accepted |-> 0, calls |-> 0, issued |-> <<>>, requests |-> 0]
NoPeer == [state |-> StateNone, keys |-> {}, data |-> EmptyData, call |-> NoCall]
NoCalc == [fn |-> "none"]

\* the texts a user sends while the survey keyboard is shown
ButtonA == <<"A", ":", " ", "y">>      \* the button of option A
LowerB == <<"b">>                      \* the letter typed by hand
AnsweringTexts == {CancelText, YesText, ButtonA, LowerB}

\* the texts of the main keyboard and the commands
SurveyText == <<"s">>                  \* "/survey", the survey button
ProfileText == <<"p">>                 \* "/profile", the profile button
CancelCommandText == <<"/", "c">>      \* "/cancel", "<cross> Otmenit'"
AdviceText == <<"i">>                  \* "/advice", the advice button

\* the strings get_personalized_advice may return
AdvicePool == {<<"1">>, <<"2">>}

Rep(n) == [i \in 1..n |-> "y"]

\* the responses of generate_profile: the call raises, the response lacks
\* 'details', or it carries a text (empty, too short, long enough)
Responses ==
  {[ok |-> FALSE, has |-> FALSE, details |-> <<>>],
   [ok |-> TRUE, has |-> FALSE, details |-> <<>>]}
  \cup {[ok |-> TRUE, has |-> TRUE, details |-> d] :
          d \in {<<>>, Rep(MinDetailsLen - 1), Rep(MinDetailsLen)}}

\* the context a handler starts from, for a store and a gateway call slot
NewCtx(store, slot) ==
  [state |-> store.state, keys |-> store.keys, data |-> store.data,
   out |-> <<>>, call |-> slot,
   written |-> {}, cleared |-> FALSE, state_set |-> FALSE]

Ctx == NewCtx(session, call)

(***************************************************************************)
(* The session as the handlers read it.                                    *)
(***************************************************************************)
Cursor == Get(Ctx, "question_index", 0)
Answers == Get(Ctx, "answers", <<>>)
IsDemo == Get(Ctx, "is_demo_questions", TRUE)
Waiting == Get(Ctx, "waiting_for_vasini_confirmation", FALSE)
ProfileCompleted == Get(Ctx, "profile_completed", FALSE)

DemoPhase == session.state = StateAnswering /\ ~call.active /\ IsDemo
ConfirmationStep == session.state = StateAnswering /\ ~call.active /\ ~IsDemo /\ Waiting
InventoryPhase == session.state = StateAnswering /\ ~call.active /\ ~IsDemo /\ ~Waiting

\* the phase of the session (section 3 of the specification)
Phase ==
  IF call.active THEN "completing"
  ELSE IF session.state = StateAnswering
  THEN (IF IsDemo THEN "demo" ELSE IF Waiting THEN "confirmation" ELSE "inventory")
  ELSE IF ProfileCompleted THEN "completed"
  ELSE "idle"

\* the handler ran: text is the text it was given (the message text, or the
\* details returned by the gateway), result is how the gateway call ended,
\* phase and cursor are those the handler found
ApplyResult(c, handler, text, result) ==
  /\ session' = [state |-> c.state, keys |-> c.keys, data |-> c.data]
  /\ out' = c.out
  /\ call' = c.call
  /\ ev' = [handler |-> handler, text |-> text, result |-> result,
            phase |-> Phase, cursor |-> Cursor]
  /\ UNCHANGED <<inflight, hist, peer, calc>>

Apply(c, handler, text) == ApplyResult(c, handler, text, "")

Init ==
  /\ session = [state |-> StateNone, keys |-> {}, data |-> EmptyData]
  /\ out = <<>>
  /\ call = NoCall
  /\ ev = [handler |-> "init", text |-> <<>>, result |-> "", phase |-> "idle",
           cursor |-> 0]
  /\ inflight = <<>>
  /\ hist = NoHist
  /\ peer = NoPeer
  /\ calc = NoCalc

\* one update of the session is handled to completion, the gateway call
\* included, before the next one is taken up
Sequential == ~call.active

\* message handlers, in the order the router tries them
ProcessSurveyAnswer ==
  /\ Sequential
  /\ session.state = StateAnswering
  /\ \E text \in AnsweringTexts :
       Apply(process_survey_answer(Ctx, text), "process_survey_answer", text)

CommandSurvey ==
  /\ Sequential
  /\ session.state # StateAnswering
  /\ Apply(command_survey(Ctx), "command_survey", SurveyText)

CommandProfile ==
  /\ Sequential
  /\ session.state # StateAnswering
  /\ Apply(command_profile(Ctx), "command_profile", ProfileText)

CancelSurveyCommand ==
  /\ Sequential
  /\ session.state # StateAnswering
  /\ Apply(cancel_survey_command(Ctx), "cancel_survey_command", CancelCommandText)

CommandAdvice ==
  /\ Sequential
  /\ session.state # StateAnswering
  /\ Len(Get(Ctx, "used_advices", <<>>)) < MaxAdvice
  /\ \E advice \in AdvicePool :
       Apply(command_advice(Ctx, advice), "command_advice", AdviceText)

\* callback handlers: no state filter
ConfirmRestartSurvey ==
  /\ Sequential
  /\ Apply(confirm_restart_survey(Ctx), "confirm_survey", <<>>)
CancelRestartSurvey ==
  /\ Sequential
  /\ Apply(cancel_restart_survey(Ctx), "cancel_survey", <<>>)
RestartSurvey ==
  /\ Sequential
  /\ Apply(restart_survey(Ctx), "restart_survey", <<>>)
ConfirmProfileReset ==
  /\ Sequential
  /\ Apply(confirm_profile_reset(Ctx), "confirm_profile_reset", <<>>)
CancelProfileReset ==
  /\ Sequential
  /\ Apply(cancel_profile_reset(Ctx), "cancel_profile_reset", <<>>)
ShowProfileDetails ==
  /\ Sequential
  /\ Apply(show_profile_details(Ctx), "show_details", <<>>)
ViewProfileCallback ==
  /\ Sequential
  /\ Apply(view_profile_callback(Ctx), "view_profile", <<>>)
BackToMainMenu ==
  /\ Sequential
  /\ Apply(back_to_main_menu(Ctx), "main_menu", <<>>)
StartSurveyCallback ==
  /\ Sequential
  /\ Apply(start_survey_callback(Ctx), "start_survey", <<>>)

GetAdviceCallback ==
  /\ Sequential
  /\ Len(Get(Ctx, "used_advices", <<>>)) < MaxAdvice
  /\ \E advice \in AdvicePool :
       Apply(get_advice_callback(Ctx, advice), "get_advice", <<>>)

\* generate_profile returns or raises; complete_survey runs to its end
GatewayReturn ==
  /\ call.active
  /\ \E resp \in Responses :
       ApplyResult(complete_survey_return(Ctx, resp), "complete_survey", resp.details,
                   IF ~resp.ok THEN "raised"
                   ELSE IF resp.has THEN "details" ELSE "no_details")

Next ==
  \/ ProcessSurveyAnswer
  \/ CommandSurvey
  \/ CommandProfile
  \/ CancelSurveyCommand
  \/ CommandAdvice
  \/ ConfirmRestartSurvey
  \/ CancelRestartSurvey
  \/ RestartSurvey
  \/ ConfirmProfileReset
  \/ CancelProfileReset
  \/ ShowProfileDetails
  \/ ViewProfileCallback
  \/ BackToMainMenu
  \/ StartSurveyCallback
  \/ GetAdviceCallback
  \/ GatewayReturn

Spec == Init /\ [][Next]_vars

(***************************************************************************)
(* Properties.                                                             *)
(***************************************************************************)
\* C1: in the inventory phase, handling a message that is not the cancel
\* text and in which the parser finds no option letter changes nothing in the
\* session (cursor, answers, is_demo_questions, FSM state) and sends the
\* re-prompt for the question at the cursor; as this holds of every such
\* step, it holds of any number of them in a row.
C1_UnparseableKeepsQuestion ==
  [][(/\ InventoryPhase
      /\ ev'.handler = "process_survey_answer"
      /\ ev'.text # CancelText
      /\ parse_option(ev'.text) = NoOption)
     => (/\ session' = session
         /\ call' = call
         /\ out' = <<Msg("vasini_reprompt", Cursor, "")>>)]_vars

\* the second inventory question has been re-prompted after an unparseable
\* message
C1_Witness ==
  /\ InventoryPhase
  /\ ev.handler = "process_survey_answer"
  /\ parse_option(ev.text) = NoOption
  /\ Cursor = 1
  /\ out = <<Msg("vasini_reprompt", 1, "")>>

\* the session right after start_survey started a survey in an empty session
FreshSurvey ==
  [state |-> StateAnswering,
   keys |-> {"question_index", "question_type", "answers", "is_demo_questions"},
   data |-> [EmptyData EXCEPT !.question_type = "demo"]]

StartHandlers == {"command_survey", "start_survey"}

\* C2: the cancel text handled in the demo phase, at the confirmation step
\* or in the inventory phase, at any cursor, leaves the session idle with no
\* data at all, and a survey started next begins at question 0 with an empty
\* answer set.
C2_CancelDiscardsSurvey ==
  [][/\ (/\ session.state = StateAnswering
         /\ ev'.handler = "process_survey_answer"
         /\ ev'.text = CancelText)
        => (session'.state = StateNone /\ session'.keys = {})
     /\ (/\ ev.handler = "process_survey_answer"
         /\ ev.text = CancelText
         /\ ev'.handler \in StartHandlers)
        => (session' = FreshSurvey /\ out'[2] = Msg("demo_question", 0, ""))]_vars

\* the cancel text was handled in the inventory phase at cursor 1 and left
\* the session idle
C2_Witness ==
  /\ ev.handler = "process_survey_answer"
  /\ ev.text = CancelText
  /\ ev.phase = "inventory"
  /\ ev.cursor = 1
  /\ session.state = StateNone

ResultKeys == {"profile_completed", "profile_text", "profile_details",
               "personality_type", "secondary_type", "type_counts"}

\* C3: when generate_profile raises, complete_survey leaves the session
\* idle and not completed, with no profile text, no classification and no
\* answers stored, and a survey started next starts from an empty session.
C3_GatewayFailureReturnsToIdle ==
  [][/\ (/\ call.active
         /\ ev'.handler = "complete_survey"
         /\ ev'.result = "raised")
        => (/\ session'.state = StateNone
            /\ ~ProfileCompleted'
            /\ session'.keys \cap (ResultKeys \cup {"answers"}) = {}
            /\ ~call'.active)
     /\ (/\ ev.handler = "complete_survey"
         /\ ev.result = "raised"
         /\ ev'.handler \in StartHandlers)
        => session' = FreshSurvey]_vars

\* the gateway call of a finished survey raised and the session is idle
C3_Witness ==
  /\ ev.handler = "complete_survey"
  /\ ev.result = "raised"
  /\ ev.phase = "completing"
  /\ session.state = StateNone
  /\ out[1] = Msg("generation_error", 0, "")

\* one entry per question of the catalog, and nothing else
FullAnswerSet(answers) ==
  /\ Len(answers) = Len(demo_questions) + Len(vasini_questions)
  /\ \A i \in 1..Len(demo_questions) :
       \E k \in 1..Len(answers) : answers[k].id = demo_questions[i].id
  /\ \A i \in 1..Len(vasini_questions) :
       \E k \in 1..Len(answers) : answers[k].id = vasini_questions[i].id

\* a result of a completion appears in the session in this step
StoresResult ==
  \/ ~ProfileCompleted /\ ProfileCompleted'
  \/ Get(Ctx, "personality_type", NoType)' # NoType
       /\ Get(Ctx, "personality_type", NoType)' # Get(Ctx, "personality_type", NoType)
  \/ \E k \in {"secondary_type", "type_counts"} :
       k \notin session.keys /\ k \in session'.keys
  \/ \E k \in {"profile_text", "profile_details"} :
       Get(Ctx, k, <<>>)' # <<>> /\ Get(Ctx, k, <<>>)' # Get(Ctx, k, <<>>)

\* C4: profile_completed becomes true, and the classification and the
\* profile text are stored, only in the step in which generate_profile
\* returns a response for the full answer set; while the call is outstanding
\* the session is not marked completed.
C4_CompletedOnlyAfterGateway ==
  [][/\ StoresResult
        => (/\ call.active
            /\ FullAnswerSet(call.answers)
            /\ ev'.handler = "complete_survey"
            /\ ev'.result # "raised")
     /\ call'.active => ~ProfileCompleted']_vars

\* the gateway returned a profile text and the session is completed
C4_Witness ==
  /\ ev.handler = "complete_survey"
  /\ ev.result = "details"
  /\ ev.phase = "completing"
  /\ ProfileCompleted
  /\ Get(Ctx, "profile_details", <<>>) = Rep(MinDetailsLen)

\* C5: a response of generate_profile whose details are missing, empty or
\* shorter than 20 characters aborts the completion: the session is idle,
\* profile_completed is not true and the answers are discarded.
C5_DegenerateResponseAborts ==
  (/\ ev.handler = "complete_survey"
   /\ ev.result \in {"details", "no_details"}
   /\ DetailsMissing(ev.text))
  => (/\ session.state = StateNone
      /\ ~ProfileCompleted
      /\ Answers = <<>>)

ConfirmedResets == {"confirm_survey", "confirm_profile_reset"}

\* C6: with a completed profile, start_survey only sends the confirm/cancel
\* prompt and changes neither the FSM state nor the data; handling
\* confirm_survey starts the survey with the prior answers cleared; handling
\* cancel_survey changes nothing; and no handler but a confirmed reset
\* (confirm_survey, or confirm_profile_reset of the profile view) takes a
\* session with a completed profile into the survey.
C6_RestartNeedsConfirmation ==
  [][/\ (ProfileCompleted /\ ev'.handler \in StartHandlers)
        => (/\ session' = session
            /\ call' = call
            /\ out' = <<Msg("confirm_restart_prompt", 0, "")>>)
     /\ (ProfileCompleted /\ ev'.handler = "confirm_survey")
        => (/\ session'.state = StateAnswering
            /\ Answers' = <<>>
            /\ Cursor' = 0
            /\ IsDemo'
            /\ ~ProfileCompleted')
     /\ ev'.handler = "cancel_survey"
        => (session' = session /\ call' = call)
     /\ (ProfileCompleted /\ (session'.state = StateAnswering \/ Answers' # Answers))
        => ev'.handler \in ConfirmedResets]_vars

\* confirm_survey was handled for a completed profile and the survey runs
\* with an empty answer set
C6_Witness ==
  /\ ev.handler = "confirm_survey"
  /\ ev.phase = "completed"
  /\ session.state = StateAnswering
  /\ Answers = <<>>
  /\ Cursor = 0

\* the stored profile: the completed flag, the answers, the texts and the
\* classification
StoredProfile ==
  [k \in ResultKeys \cup {"answers"} |->
     [present |-> k \in session.keys, value |-> session.data[k]]]

\* C7: a stored completed profile is cleared or changed only by a step of
\* confirm_survey or confirm_profile_reset; start, cancel, advice, profile
\* display, main menu and the completion error path leave it as it is.
C7_ProfileResetOnlyByConfirmation ==
  [][(ProfileCompleted /\ StoredProfile' # StoredProfile)
     => ev'.handler \in ConfirmedResets]_vars

\* the cancel command was handled while a completed profile was stored, and
\* the profile is still there
C7_Witness ==
  /\ ev.handler = "cancel_survey_command"
  /\ ev.phase = "completed"
  /\ ProfileCompleted
  /\ FullAnswerSet(Answers)
  /\ Get(Ctx, "profile_details", <<>>) = Rep(MinDetailsLen)

\* C10: with distinct question ids, the answer set handed to complete_survey
\* and the one stored with a completed profile have exactly
\* len(demo_questions) + len(vasini_questions) entries, one per question.
C10_OneAnswerPerQuestion ==
  /\ call.active => FullAnswerSet(call.answers)
  /\ ProfileCompleted => FullAnswerSet(Answers)

\* a survey answered to the end was completed and its answer set stored
C10_Witness ==
  /\ ev.handler = "complete_survey"
  /\ ProfileCompleted
  /\ Len(Answers) = NumDemo + NumVasini

(***************************************************************************)
(* The answer parser on every short text: the session stands at the first  *)
(* inventory question, a text has been received, process_survey_answer     *)
(* handles it.                                                             *)
(***************************************************************************)
ParserAlphabet == {"A", "B", "C", "D", "b", ":", " ", "y"}
ParserTexts == UNION {[1..n -> ParserAlphabet] : n \in 1..MaxTextLen}

RECURSIVE AnswerDemoQuestions(_, _)
AnswerDemoQuestions(c, n) ==
  IF n = 0 THEN c
  ELSE AnswerDemoQuestions(process_survey_answer([c EXCEPT !.out = <<>>], LowerB), n - 1)

\* the context left by: survey started, every demo question answered, the
\* start of the inventory confirmed
InventoryStart ==
  process_survey_answer(
    [AnswerDemoQuestions(
       start_survey(NewCtx([state |-> StateNone, keys |-> {}, data |-> EmptyData],
                           NoCall)),
       NumDemo) EXCEPT !.out = <<>>],
    YesText)

InitParse ==
  /\ session = [state |-> InventoryStart.state, keys |-> InventoryStart.keys,
                data |-> InventoryStart.data]
  /\ out = InventoryStart.out
  /\ call = NoCall
  /\ \E text \in ParserTexts :
       ev = [handler |-> "received", text |-> text, result |-> "",
             phase |-> "confirmation", cursor |-> 0]
  /\ inflight = <<>>
  /\ hist = NoHist
  /\ peer = NoPeer
  /\ calc = NoCalc

HandleReceived ==
  /\ ev.handler = "received"
  /\ Apply(process_survey_answer(Ctx, ev.text), "process_survey_answer", ev.text)

NextParse == HandleReceived

SpecParse == InitParse /\ [][NextParse]_vars

\* the message received has been handled
Handled == ev.handler = "process_survey_answer" /\ ev.phase = "inventory"

\* the letter was recorded for the first inventory question
Recorded(X) ==
  /\ Cursor = 1
  /\ Answers = Append(InventoryStart.data.answers,
                      [id |-> vasini_questions[1].id, val |-> <<X>>])

NothingRecorded ==
  /\ Cursor = 0
  /\ Answers = InventoryStart.data.answers

\* the four accepted formats of an answer X, as the specification lists them
AcceptedFormat(f, X, text) ==
  CASE f = 1 -> Len(text) >= 2 /\ text[1] = X /\ text[2] = ":"
    [] f = 2 -> Len(text) >= 2 /\ text[1] = X /\ text[2] = " "
    [] f = 3 -> Len(text) = 1 /\ Upper(text[1]) = X
    [] f = 4 -> \E i \in 1..Len(text) :
                  /\ Upper(text[i]) = X
                  /\ (i = 1 \/ text[i - 1] = " ")
                  /\ (i = Len(text) \/ text[i + 1] = " ")

\* the place in the rule order of the first format the text has for X
\* (5: none)
FormatRank(X, text) ==
  IF \E f \in 1..4 : AcceptedFormat(f, X, text)
  THEN CHOOSE f \in 1..4 :
         /\ AcceptedFormat(f, X, text)
         /\ \A g \in 1..(f - 1) : ~AcceptedFormat(g, X, text)
  ELSE 5

LetterSet == {"A", "B", "C", "D"}

\* C8: a message in one of the four accepted formats for the letter X (a
\* text with formats of several letters counts for the letter whose format
\* comes first in the rule order), the button text "X: <option text>"
\* included, is parsed as X and X is recorded for the current question; a
\* message with none of the letters in any of the formats is not parsed and
\* nothing is recorded.
C8_ParserExtractsLetter ==
  Handled =>
    /\ \A X \in LetterSet :
         (/\ FormatRank(X, ev.text) <= 4
          /\ \A Y \in LetterSet \ {X} : FormatRank(Y, ev.text) > FormatRank(X, ev.text))
         => Recorded(X)
    /\ (\A X \in LetterSet : FormatRank(X, ev.text) = 5) => NothingRecorded

\* the letter the handler took from the message: the option of the
\* interpretation it sent ("None": re-prompt)
ParsedOption ==
  IF out # <<>> /\ out[1].kind = "interpretation" THEN out[1].opt ELSE NoOption

\* C9: the rules are tried in rule order and the first rule that succeeds
\* decides: when rule r succeeds for the letter X and no rule up to r
\* succeeds for another letter, the message is parsed as X, whatever
\* lower-priority rules succeed for other letters.
C9_FirstRuleWins ==
  Handled =>
    \A X \in LetterSet : \A r \in 1..4 :
      (/\ MatchesRule(r, X, ev.text)
       /\ \A Y \in LetterSet \ {X} : \A q \in 1..r : ~MatchesRule(q, Y, ev.text))
      => ParsedOption = X

(***************************************************************************)
(* The answer set during a survey run.                                     *)
(***************************************************************************)
\* the ids of the first n demo questions / inventory questions, in order
DemoIds(n) == [i \in 1..n |-> demo_questions[i].id]
VasiniIds(n) == [i \in 1..n |-> vasini_questions[i].id]

AnswerIds(answers) == [i \in 1..Len(answers) |-> answers[i].id]

\* the ids of the questions answered so far, as the cursor tells
AnsweredIds ==
  IF IsDemo THEN DemoIds(Cursor) ELSE DemoIds(NumDemo) \o VasiniIds(Cursor)

SurveyRun == session.state = StateAnswering

\* the handlers that begin a new run when handled during a run
RunStarters == {"start_survey", "confirm_survey", "confirm_profile_reset"}

IsPrefix(s, t) == Len(s) <= Len(t) /\ SubSeq(t, 1, Len(s)) = s

\* C11: during a survey run the ids of the stored answers are, in order, the
\* first question_index demo ids in the demo phase and all demo ids followed
\* by the first question_index inventory ids at the confirmation step and in
\* the inventory phase, so no entry exists for a question at or after the
\* cursor; and a step inside one run only appends to the stored answers.
C11_AnswersMatchCursor ==
  [][/\ SurveyRun' => AnswerIds(Answers') = AnsweredIds'
     /\ (SurveyRun /\ SurveyRun' /\ ev'.handler \notin RunStarters)
        => IsPrefix(Answers, Answers')]_vars

\* the first inventory question has been answered: every demo id and the
\* first inventory id are stored, the cursor stands at the second question
C11_Witness ==
  /\ InventoryPhase
  /\ ev.handler = "process_survey_answer"
  /\ ev.phase = "inventory"
  /\ Cursor = 1
  /\ AnswerIds(Answers) = DemoIds(NumDemo) \o VasiniIds(1)

(***************************************************************************)
(* Overlapping invocations of process_survey_answer.  The handler reads    *)
(* the data once (get_data, line 190), awaits the sending of its messages  *)
(* and writes back at its end (update_data, lines 244-249 and 437-441, or  *)
(* complete_survey); it takes no lock, so an invocation for a message that *)
(* arrives while another one is suspended reads the same data.  An         *)
(* invocation is split at its first await after the read.  A survey is     *)
(* started only when no invocation is left over, and an invocation that    *)
(* would call the gateway while a call is outstanding is not followed.     *)
(***************************************************************************)
\* the store after the operations of a handler that left the context r
Commit(store, r) ==
  IF r.cleared
  THEN [state |-> r.state, keys |-> r.keys, data |-> r.data]
  ELSE [state |-> IF r.state_set THEN r.state ELSE store.state,
        keys |-> store.keys \cup r.written,
        data |-> [k \in Keys |-> IF k \in r.written THEN r.data[k]
                                                     ELSE store.data[k]]]

\* the handler reached complete_survey and called generate_profile
StartsCall(r) == \E i \in 1..Len(r.out) : r.out[i].kind = "processing"

\* the handler recorded the answer of its message
Accepts(r) == "answers" \in r.written \/ StartsCall(r)

MaxAccepted == NumDemo + NumVasini + MaxInflight

OvStep(r, handler, text, result) ==
  /\ session' = Commit(session, r)
  /\ out' = r.out
  /\ call' = r.call
  /\ ev' = [handler |-> handler, text |-> text, result |-> result,
            phase |-> Phase, cursor |-> Cursor]
  /\ UNCHANGED <<peer, calc>>

\* /survey in an idle session: a run begins
OvCommandSurvey ==
  /\ session.state # StateAnswering
  /\ ~call.active
  /\ inflight = <<>>
  /\ LET r == command_survey(Ctx)
     IN /\ OvStep(r, "command_survey", SurveyText, "")
        /\ hist' = IF r.state = StateAnswering THEN NoHist ELSE hist
  /\ UNCHANGED inflight

\* the cancel text: state.clear() comes before any await
OvCancel ==
  /\ session.state = StateAnswering
  /\ OvStep(process_survey_answer(Ctx, CancelText), "process_survey_answer",
            CancelText, "")
  /\ UNCHANGED <<inflight, hist>>

\* a message passes the state filter and its invocation reads the data
OvReceive ==
  /\ session.state = StateAnswering
  /\ Len(inflight) < MaxInflight
  /\ \E text \in AnsweringTexts \ {CancelText} :
       /\ inflight' = Append(inflight, [text |-> text, keys |-> session.keys,
                                        data |-> session.data])
       /\ ev' = [handler |-> "get_data", text |-> text, result |-> "",
                 phase |-> Phase, cursor |-> Cursor]
  /\ UNCHANGED <<session, out, call, hist, peer, calc>>

\* an invocation runs on from the data it read to its end
OvFinish ==
  \E i \in 1..Len(inflight) :
    LET inv == inflight[i]
        r == process_survey_answer(
               NewCtx([state |-> session.state, keys |-> inv.keys,
                       data |-> inv.data], call),
               inv.text)
    IN /\ ~(call.active /\ StartsCall(r))
       /\ hist.accepted < MaxAccepted
       /\ OvStep(r, "process_survey_answer", inv.text, "")
       /\ inflight' = SubSeq(inflight, 1, i - 1) \o SubSeq(inflight, i + 1, Len(inflight))
       /\ hist' = [hist EXCEPT
                     !.accepted = @ + (IF Accepts(r) THEN 1 ELSE 0),
                     !.calls = @ + (IF StartsCall(r) THEN 1 ELSE 0)]

OvGatewayReturn ==
  /\ call.active
  /\ \E resp \in Responses :
       OvStep(complete_survey_return(Ctx, resp), "complete_survey", resp.details,
              IF ~resp.ok THEN "raised"
              ELSE IF resp.has THEN "details" ELSE "no_details")
  /\ UNCHANGED <<inflight, hist>>

NextOverlap ==
  \/ OvCommandSurvey
  \/ OvCancel
  \/ OvReceive
  \/ OvFinish
  \/ OvGatewayReturn

SpecOverlap == Init /\ [][NextOverlap]_vars

\* the questions the cursor has passed in this run
Position == IF IsDemo THEN Cursor ELSE NumDemo + Cursor

\* C12: the messages of one session are never handled overlappingly (no two
\* invocations of process_survey_answer read question_index/answers before
\* either writes them back, none reads while complete_survey awaits the
\* gateway), so that the cursor has advanced by exactly the number of
\* answers accepted in the run, and the gateway is called at most once per
\* run.
C12_AnswersHandledOneAtATime ==
  /\ (SurveyRun /\ hist.calls = 0) => Position = hist.accepted
  /\ hist.calls <= 1

(***************************************************************************)
(* Two users.  Every handler reaches the data through the FSMContext it is *)
(* given, which the dispatcher binds to the user of the update; the module *)
(* keeps no data of its own (its only module-level objects are the logger  *)
(* and the router).  The events of one user are taken one at a time, those *)
(* of different users in any order, also while the gateway call of the     *)
(* other user is outstanding.                                              *)
(***************************************************************************)
Users == {"u1", "u2"}

\* the storage key of the FSMContext, were it the same for every user
StorageKey_Shared(u) == "u1"

\* the storage key of the FSMContext handed to a handler for an update of u
StorageKey(u) == u

\* the store and the gateway call slot kept under a key
UserStore(k) ==
  IF k = "u1"
  THEN [state |-> session.state, keys |-> session.keys, data |-> session.data,
        call |-> call]
  ELSE peer

\* the context of a handler that runs for an update of u
UserCtx(u) == NewCtx(UserStore(StorageKey(u)), UserStore(StorageKey(u)).call)

Stored(r) == [state |-> r.state, keys |-> r.keys, data |-> r.data, call |-> r.call]

\* the handler ran for an update of u and left the context r
UserApply(u, r, handler) ==
  /\ session' = IF StorageKey(u) = "u1"
                THEN [state |-> r.state, keys |-> r.keys, data |-> r.data]
                ELSE session
  /\ call' = IF StorageKey(u) = "u1" THEN r.call ELSE call
  /\ peer' = IF StorageKey(u) = "u1" THEN peer ELSE Stored(r)
  /\ out' = r.out
  /\ ev' = [handler |-> handler, user |-> u]
  /\ UNCHANGED <<inflight, hist, calc>>

\* the texts the users send: the first answers to the end of the survey,
\* the second confirms the inventory and stays at its first question
UserTexts(u) ==
  IF u = "u1" THEN {CancelText, YesText, ButtonA} ELSE {CancelText, YesText}

\* the advice strings the engine returns to the users
UserAdvice(u) == IF u = "u1" THEN AdvicePool ELSE {<<"2">>}

\* the gateway raises or returns a profile text
UserResponses == {resp \in Responses : ~resp.ok \/ Len(resp.details) = MinDetailsLen}

UsCommandSurvey ==
  \E u \in Users :
    /\ ~UserCtx(u).call.active
    /\ UserCtx(u).state # StateAnswering
    /\ UserApply(u, command_survey(UserCtx(u)), "command_survey")

UsProcessSurveyAnswer ==
  \E u \in Users :
    /\ ~UserCtx(u).call.active
    /\ UserCtx(u).state = StateAnswering
    /\ \E text \in UserTexts(u) :
         UserApply(u, process_survey_answer(UserCtx(u), text), "process_survey_answer")

UsConfirmRestartSurvey ==
  \E u \in Users :
    /\ ~UserCtx(u).call.active
    /\ UserApply(u, confirm_restart_survey(UserCtx(u)), "confirm_survey")

UsGetAdviceCallback ==
  \E u \in Users :
    /\ ~UserCtx(u).call.active
    /\ Len(Get(UserCtx(u), "used_advices", <<>>)) < MaxAdvice
    /\ \E advice \in UserAdvice(u) :
         UserApply(u, get_advice_callback(UserCtx(u), advice), "get_advice")

UsGatewayReturn ==
  \E u \in Users :
    /\ UserCtx(u).call.active
    /\ \E resp \in UserResponses :
         UserApply(u, complete_survey_return(UserCtx(u), resp), "complete_survey")

NextUsers ==
  \/ UsCommandSurvey
  \/ UsProcessSurveyAnswer
  \/ UsConfirmRestartSurvey
  \/ UsGetAdviceCallback
  \/ UsGatewayReturn

InitUsers ==
  /\ session = [state |-> StateNone, keys |-> {}, data |-> EmptyData]
  /\ out = <<>>
  /\ call = NoCall
  /\ ev = [handler |-> "init", user |-> "u1"]
  /\ inflight = <<>>
  /\ hist = NoHist
  /\ peer = NoPeer
  /\ calc = NoCalc

SpecUsers == InitUsers /\ [][NextUsers]_vars

\* what a handler can leave of a store, given that store alone
OwnOutcomes(handler, own) ==
  CASE handler = "command_survey" -> {Stored(command_survey(own))}
    [] handler = "process_survey_answer" ->
         {Stored(process_survey_answer(own, text)) : text \in AnsweringTexts}
    [] handler = "confirm_survey" -> {Stored(confirm_restart_survey(own))}
    [] handler = "get_advice" ->
         {Stored(get_advice_callback(own, advice)) : advice \in AdvicePool}
    [] handler = "complete_survey" ->
         {Stored(complete_survey_return(own, resp)) : resp \in Responses}

MaxAttempts == 5           \* while advice in history and attempts < 5

default_type == "Intellectual"

\* the keys of keywords, aspects, emoji_map, techniques, contexts, results
AdviceTypes == <<"Intellectual", "Emotional", "Practical", "Creative", "Analytical type">>
AdviceTypeSet == {AdviceTypes[i] : i \in 1..Len(AdviceTypes)}

\* the keys of advice_by_type (lines 1029-1046)
FallbackTypeSet == {"Intellectual", "Emotional", "Practical", "Creative"}

\* str.lower() on one character
Lower(c) ==
  CASE c = "G" -> "g"
    [] c = "Z" -> "z"
    [] c = "Y" -> "y"
    [] OTHER -> c

\* str.lower()
LowerStr(s) == [i \in 1..Len(s) |-> Lower(s[i])]

keywords ==
  [t \in AdviceTypeSet |->
    CASE t = "Intellectual" -> << <<"z">>, <<"l">>, <<"r">> >>
      [] t = "Emotional" -> << <<"e">>, <<"n">> >>
      [] t = "Practical" -> << <<"g">>, <<"t">> >>
      [] t = "Creative" -> << <<"i">>, <<"n">> >>
      [] t = "Analytical type" -> << <<"z", "d">>, <<"r">>, <<"f">> >>]

\* the list a table keeps for a type
Pool(table, t) == [i \in 1..PoolSize |-> <<table, t, i>>]

\* table[personality_type], with no default
TableGet_NoDefault(table, keys, personality_type) == Pool(table, personality_type)

\* table.get(personality_type, table.get(default_type, [...]))
TableGet(table, keys, personality_type) ==
  IF personality_type \in keys THEN Pool(table, personality_type)
  ELSE Pool(table, default_type)

Range(s) == {s[i] : i \in 1..Len(s)}

\* all_keywords: the lists of keywords.values() one after the other
RECURSIVE AllKeywordsFrom(_)
AllKeywordsFrom(i) ==
  IF i > Len(AdviceTypes) THEN <<>>
  ELSE keywords[AdviceTypes[i]] \o AllKeywordsFrom(i + 1)

all_keywords == AllKeywordsFrom(1)

\* found_keywords: one entry per entry of all_keywords that occurs in the text
RECURSIVE FoundFrom(_, _)
FoundFrom(i, profile_text) ==
  IF i > Len(all_keywords) THEN <<>>
  ELSE (IF Contains(LowerStr(profile_text), LowerStr(all_keywords[i]))
        THEN <<all_keywords[i]>> ELSE <<>>) \o FoundFrom(i + 1, profile_text)

found_keywords(profile_text) == FoundFrom(1, profile_text)

\* type_counts: for every found entry, one for each type that lists it
KeywordCounts(found) ==
  [t \in AdviceTypeSet |->
    Cardinality({i \in 1..Len(found) :
                   \E j \in 1..Len(keywords[t]) :
                     LowerStr(found[i]) = LowerStr(keywords[t][j])})]

\* max(type_counts.items(), key=lambda x: x[1])[0]: the first greatest
dominant_type(counts) ==
  AdviceTypes[CHOOSE i \in 1..Len(AdviceTypes) :
                /\ \A j \in 1..Len(AdviceTypes) :
                     counts[AdviceTypes[j]] <= counts[AdviceTypes[i]]
                /\ \A j \in 1..(i - 1) :
                     counts[AdviceTypes[j]] < counts[AdviceTypes[i]]]

\* extract_key_aspects(profile_text, personality_type)
extract_key_aspects(profile_text, personality_type) ==
  LET found == found_keywords(profile_text)
      personality_aspects == TableGet("aspects", AdviceTypeSet, personality_type)
  IN IF found # <<>>
     THEN LET dominant == dominant_type(KeywordCounts(found))
              dominant_aspects == TableGet("aspects", AdviceTypeSet, dominant)
          IN IF dominant # personality_type
             THEN personality_aspects \o dominant_aspects
             ELSE personality_aspects
     ELSE personality_aspects

(***************************************************************************)
(* random.choice.  The outcomes of the generator are a periodic stream of  *)
(* picks given by a seed; the choices made for one composition (emoji,     *)
(* aspect, technique, context, result) use the same pick, the aspect also  *)
(* the second half of a combined list when the seed says so.               *)
(***************************************************************************)
Seeds ==
  [picks : UNION {[1..n -> 1..PoolSize] : n \in 1..MaxSeedLen}, tail : BOOLEAN]

RandPick(seed, i) == seed.picks[((i - 1) % Len(seed.picks)) + 1]

\* random.choice(list) for the i-th composition
Choice(list, seed, i) == list[((RandPick(seed, i) - 1) % Len(list)) + 1]

\* random.choice(aspects) for the i-th composition
ChoiceAspect(aspects, seed, i) ==
  aspects[((RandPick(seed, i) + (IF seed.tail THEN PoolSize ELSE 0) - 1)
             % Len(aspects)) + 1]

\* the f-string of lines 1361 and 1373: a composition is told by its parts
ComposeAdvice(pools, seed, i) ==
  [emoji |-> Choice(pools.emoji, seed, i),
   aspect |-> ChoiceAspect(pools.aspects, seed, i),
   technique |-> Choice(pools.techniques, seed, i),
   result |-> Choice(pools.results, seed, i),
   context |-> Choice(pools.contexts, seed, i)]

\* the loop condition with one attempt more
KeepsSampling_OneMore(advice, attempts, history) ==
  advice \in Range(history) /\ attempts < MaxAttempts + 1

\* advice in history and attempts < 5
KeepsSampling(advice, attempts, history) ==
  advice \in Range(history) /\ attempts < MaxAttempts

\* the loop left out: the first composition is returned
Resample_Never(cands, attempts, history, pools, seed) == cands

\* the while loop of lines 1364-1374; cands are the strings composed so far
RECURSIVE Resample(_, _, _, _, _)
Resample(cands, attempts, history, pools, seed) ==
  IF KeepsSampling(cands[Len(cands)], attempts, history)
  THEN Resample(Append(cands, ComposeAdvice(pools, seed, attempts + 2)),
                attempts + 1, history, pools, seed)
  ELSE cands

\* the lists generate_unique_advice chooses from (lines 1210-1357)
AdvicePools(profile_text, personality_type) ==
  LET extracted == extract_key_aspects(profile_text, personality_type)
  IN [aspects |-> IF extracted = <<>> THEN << <<"aspects", "generic", 1>> >>
                  ELSE extracted,
      emoji |-> TableGet("emoji", AdviceTypeSet, personality_type),
      techniques |-> TableGet("techniques", AdviceTypeSet, personality_type),
      contexts |-> TableGet("contexts", AdviceTypeSet, personality_type),
      results |-> TableGet("results", AdviceTypeSet, personality_type)]

\* the first composition and the loop (lines 1347-1379)
ComposeUnique(pools, history, seed) ==
  LET cands == Resample(<<ComposeAdvice(pools, seed, 1)>>, 0, history, pools, seed)
  IN [advice |-> cands[Len(cands)], candidates |-> cands]

\* generate_unique_advice(profile_text, personality_type, history): the
\* advice returned and the strings composed on the way; the lists are set up
\* once, before the first composition
generate_unique_advice(profile_text, personality_type, history, seed) ==
  CHOOSE g \in {ComposeUnique(pools, history, seed) :
                  pools \in {AdvicePools(profile_text, personality_type)}} : TRUE

\* get_personalized_advice(personality_type, profile_text, used_advices)
get_personalized_advice(personality_type, profile_text, used_advices, seed) ==
  IF profile_text = <<>>
  THEN [advice |-> [canned |-> Choice(TableGet("fallback", FallbackTypeSet,
                                               personality_type), seed, 1)],
        candidates |-> <<>>]
  ELSE generate_unique_advice(profile_text, personality_type, used_advices, seed)

(***************************************************************************)
(* Calls of get_personalized_advice: the arguments are drawn, the call     *)
(* returns.                                                                *)
(***************************************************************************)
\* personality_type: a key of the tables, a type of the classifier, a
\* string that is neither, None
EngineTypes == AdviceTypeSet \cup TypeSet \cup {"Unknown", NoType}

\* profile_text: none, one without keywords, one with a keyword
EngineTexts == {<<>>, <<"y">>, <<"e">>}

\* the advice returned for an empty history when every pick is k
Issued(personality_type, profile_text, k) ==
  get_personalized_advice(personality_type, profile_text, <<>>,
                          [picks |-> <<k>>, tail |-> FALSE]).advice

\* histories: the first n of these strings
EngineHistories(personality_type, profile_text) ==
  {[i \in 1..n |-> Issued(personality_type, profile_text, i)] : n \in 0..PoolSize}

InitEngine ==
  /\ session = [state |-> StateNone, keys |-> {}, data |-> EmptyData]
  /\ out = <<>>
  /\ call = NoCall
  /\ ev = [handler |-> "init"]
  /\ inflight = <<>>
  /\ hist = NoHist
  /\ peer = NoPeer
  /\ \E t \in EngineTypes : \E text \in EngineTexts :
       \E h \in EngineHistories(t, text) :
         calc = [fn |-> "get_personalized_advice", stage |-> "called",
                 personality_type |-> t, profile_text |-> text, history |-> h,
                 advice |-> <<>>, candidates |-> <<>>]

EngineCall ==
  /\ calc.stage = "called"
  /\ \E seed \in Seeds :
       \E g \in {get_personalized_advice(calc.personality_type, calc.profile_text,
                                         calc.history, seed)} :
         calc' = [calc EXCEPT !.stage = "returned", !.advice = g.advice,
                              !.candidates = g.candidates]
  /\ UNCHANGED <<session, out, call, ev, inflight, hist, peer>>

NextEngine == EngineCall

SpecEngine == InitEngine /\ [][NextEngine]_vars

Returned == calc.stage = "returned"

\* C15: generate_unique_advice composes at most 6 strings (the first and at
\* most 5 more) and returns the last one it composed; when every string it
\* composes is in the history it stops after the sixth and returns it.
C15_AtMostSixCompositions ==
  (Returned /\ calc.profile_text # <<>>)
  => /\ Len(calc.candidates) >= 1
     /\ Len(calc.candidates) <= MaxAttempts + 1
     /\ calc.advice = calc.candidates[Len(calc.candidates)]
     /\ Range(calc.candidates) \subseteq Range(calc.history)
          => Len(calc.candidates) = MaxAttempts + 1

\* six strings were composed, all of them in the history, and the last one
\* was returned
C15_Witness ==
  /\ Returned
  /\ calc.profile_text # <<>>
  /\ Len(calc.candidates) = MaxAttempts + 1
  /\ Range(calc.candidates) \subseteq Range(calc.history)
  /\ calc.advice = calc.candidates[MaxAttempts + 1]

\* C17: without a profile text, get_personalized_advice returns for every
\* type of the enumeration, Analytical included, a string of the canned
\* list of that very type, whatever the history.
C17_FallbackUsesOwnList ==
  (Returned /\ calc.profile_text = <<>> /\ calc.personality_type \in TypeSet)
  => calc.advice.canned \in Range(Pool("fallback", calc.personality_type))

\* C19: for a personality_type that is no key of the tables, None included,
\* the emoji, the technique, the context and the result of the advice come
\* from the lists of the default type, the aspect from the aspects
\* extract_key_aspects gives for the default type, and without a profile
\* text the canned string from the default type's list.
C19_UnknownTypeUsesDefault ==
  (Returned /\ calc.personality_type \notin AdviceTypeSet)
  => IF calc.profile_text = <<>>
     THEN calc.advice.canned \in Range(Pool("fallback", default_type))
     ELSE /\ calc.advice.emoji \in Range(Pool("emoji", default_type))
          /\ calc.advice.technique \in Range(Pool("techniques", default_type))
          /\ calc.advice.context \in Range(Pool("contexts", default_type))
          /\ calc.advice.result \in Range(Pool("results", default_type))
          /\ calc.advice.aspect
               \in Range(extract_key_aspects(calc.profile_text, default_type))

\* an advice was composed for personality_type None from a profile text
\* with a keyword
C19_Witness ==
  /\ Returned
  /\ calc.personality_type = NoType
  /\ calc.profile_text = <<"e">>
  /\ calc.advice.emoji \in Range(Pool("emoji", default_type))

(***************************************************************************)
(* Calls of extract_key_aspects on every short profile text.               *)
(***************************************************************************)
\* letters of keywords (also in upper case) and a letter of none
AspectAlphabet == {"z", "d", "n", "g", "t", "l", "G", "y"}
AspectTexts == UNION {[1..n -> AspectAlphabet] : n \in 1..MaxProfileLen}

InitAspects ==
  /\ session = [state |-> StateNone, keys |-> {}, data |-> EmptyData]
  /\ out = <<>>
  /\ call = NoCall
  /\ ev = [handler |-> "init"]
  /\ inflight = <<>>
  /\ hist = NoHist
  /\ peer = NoPeer
  /\ \E t \in AdviceTypeSet \cup {"Unknown"} : \E text \in AspectTexts :
       calc = [fn |-> "extract_key_aspects", stage |-> "called",
               personality_type |-> t, profile_text |-> text, aspects |-> <<>>]

AspectsCall ==
  /\ calc.stage = "called"
  /\ calc' = [calc EXCEPT !.stage = "returned",
                          !.aspects = extract_key_aspects(calc.profile_text,
                                                          calc.personality_type)]
  /\ UNCHANGED <<session, out, call, ev, inflight, hist, peer>>

NextAspects == AspectsCall

SpecAspects == InitAspects /\ [][NextAspects]_vars

\* the keywords of a type that occur in the text, each counted once
Hits(t, text) ==
  Cardinality({k \in Range(keywords[t]) : Contains(LowerStr(text), LowerStr(k))})

\* C18: for a profile text with at least one keyword, when one type has
\* more keyword hits than every other type, that type is the dominant one:
\* the aspects returned for a declared type of the tables are the declared
\* type's and the dominant type's phrases together when the two differ, and
\* the declared type's phrases alone when they are the same type.
C18_DominantTypeAspects ==
  (Returned /\ calc.personality_type \in AdviceTypeSet)
  => \A T \in AdviceTypeSet :
       (\A U \in AdviceTypeSet \ {T} :
          Hits(U, calc.profile_text) < Hits(T, calc.profile_text))
       => Range(calc.aspects) =
            IF T # calc.personality_type
            THEN Range(Pool("aspects", calc.personality_type))
                   \cup Range(Pool("aspects", T))
            ELSE Range(Pool("aspects", calc.personality_type))

(***************************************************************************)
(* Advice requests of a user with a completed profile.  The session is the *)
(* one the handlers leave after a survey answered to its end; the history  *)
(* holds the advice of earlier requests.                                   *)
(***************************************************************************)
RECURSIVE AnswerVasiniQuestions(_, _)
AnswerVasiniQuestions(c, n) ==
  IF n = 0 THEN c
  ELSE AnswerVasiniQuestions(process_survey_answer([c EXCEPT !.out = <<>>], ButtonA),
                             n - 1)

\* the profile text the gateway returned: 20 characters, one keyword
AdviceProfile == Rep(MinDetailsLen - 1) \o <<"e">>

\* the context left by: inventory answered, gateway returned the profile
CompletedStart ==
  complete_survey_return(
    [AnswerVasiniQuestions(InventoryStart, NumVasini) EXCEPT !.out = <<>>],
    [ok |-> TRUE, has |-> TRUE, details |-> AdviceProfile])

\* the history after n requests whose picks went round the lists
Prefill(n) ==
  [i \in 1..n |-> Issued(CompletedStart.data.personality_type, AdviceProfile,
                         ((i - 1) % PoolSize) + 1)]

PrefillLens == {0, HistoryCap - 2, HistoryCap - 1, HistoryCap}

InitAdvice ==
  /\ \E n \in PrefillLens :
       LET c == IF n = 0 THEN CompletedStart
                ELSE UpdateData(CompletedStart, [used_advices |-> Prefill(n)])
       IN /\ session = [state |-> c.state, keys |-> c.keys, data |-> c.data]
          /\ hist = [NoHist EXCEPT !.issued = Prefill(n)]
  /\ out = <<>>
  /\ call = NoCall
  /\ ev = [handler |-> "init", advice |-> <<>>, candidates |-> <<>>,
           history |-> <<>>]
  /\ inflight = <<>>
  /\ peer = NoPeer
  /\ calc = NoCalc

AdviceHandlers == {"get_advice", "command_advice"}

\* the outcomes of random.choice drawn for a request: the first composition
\* and one alternative, repeated
AdviceSeeds == {seed \in Seeds : Len(seed.picks) <= 2}

\* an advice handler runs: it reads the type, the profile text and the
\* history, calls get_personalized_advice and stores the new history
AdviceRequest(handler) ==
  /\ hist.requests < MaxRequests
  /\ \E seed \in AdviceSeeds :
     \E g \in {get_personalized_advice(Get(Ctx, "personality_type", default_type),
                                       Get(Ctx, "profile_details", <<>>),
                                       Get(Ctx, "used_advices", <<>>), seed)} :
       LET used_advices == Get(Ctx, "used_advices", <<>>)
           r == IF handler = "get_advice" THEN get_advice_callback(Ctx, g.advice)
                ELSE command_advice(Ctx, g.advice)
       IN /\ session' = [state |-> r.state, keys |-> r.keys, data |-> r.data]
          /\ out' = r.out
          /\ call' = r.call
          /\ ev' = [handler |-> handler, advice |-> g.advice,
                    candidates |-> g.candidates, history |-> used_advices]
          /\ hist' = [hist EXCEPT !.issued = Append(@, g.advice),
                                  !.requests = @ + 1]
  /\ UNCHANGED <<inflight, peer, calc>>

\* callback handler: no state filter
AdvGetAdviceCallback ==
  /\ Sequential
  /\ AdviceRequest("get_advice")

\* message handler: tried after process_survey_answer
AdvCommandAdvice ==
  /\ Sequential
  /\ session.state # StateAnswering
  /\ AdviceRequest("command_advice")

NextAdvice ==
  \/ AdvGetAdviceCallback
  \/ AdvCommandAdvice

SpecAdvice == InitAdvice /\ [][NextAdvice]_vars

\* the last n entries of a sequence
LastN(s, n) == SubSeq(s, Len(s) - n + 1, Len(s))

\* C14: after any sequence of advice requests (callback or command) the
\* stored used_advices has at most 20 entries and is exactly the most
\* recently issued advice strings, in issue order: all of them while there
\* are at most 20, the last 20 afterwards, the newest last.
C14_HistoryKeepsLastTwenty ==
  LET used_advices == Get(Ctx, "used_advices", <<>>)
  IN /\ Len(used_advices) <= HistoryCap
     /\ Len(used_advices) = IF Len(hist.issued) < HistoryCap THEN Len(hist.issued)
                            ELSE HistoryCap
     /\ used_advices = LastN(hist.issued, Len(used_advices))

\* two requests were made on a full history: 22 strings issued, 20 stored
C14_Witness ==
  /\ ev.handler \in AdviceHandlers
  /\ Len(hist.issued) = HistoryCap + 2
  /\ Len(Get(Ctx, "used_advices", <<>>)) = HistoryCap
  /\ Get(Ctx, "used_advices", <<>>)[HistoryCap] = ev.advice

\* every string composed for the request is in the history it was given
AllComposedUsed(e) ==
  /\ Len(e.candidates) = MaxAttempts + 1
  /\ Range(e.candidates) \subseteq Range(e.history)

\* C16: with a profile text, the advice returned is not in the history
\* passed in unless all 6 strings composed were in it; so a request that
\* follows another on the stored history returns the same string again
\* only if none of its 6 compositions was new.
C16_NoRepeatUnlessExhausted ==
  [][ev'.handler \in AdviceHandlers
     => /\ ev'.advice \in Range(ev'.history) => AllComposedUsed(ev')
        /\ (ev.handler \in AdviceHandlers /\ ev'.advice = ev.advice)
             => AllComposedUsed(ev')]_vars

\* a request resampled and returned a string that was not in its history,
\* right after another request
C16_Witness ==
  /\ ev.handler \in AdviceHandlers
  /\ hist.requests = 2
  /\ Len(ev.history) >= HistoryCap - 1
  /\ Len(ev.candidates) > 1
  /\ ev.advice \notin Range(ev.history)

\* ---------------------------------------------------------------------
\* The splitting loop of complete_survey (lines 507-521), show_profile_details
\* (694-707), view_profile_callback (813-827) and command_profile (912-926).
\* A text is told by the lengths of the lines details_text.split('\n') gives;
\* a part is the lines it holds, each followed by its line feed.
\* ---------------------------------------------------------------------
max_message_length == 4000

SplitHandlers ==
  {"complete_survey", "show_profile_details", "view_profile_callback",
   "command_profile"}

\* line lengths around the limit and around half of it
LineLens ==
  {0, 1, max_message_length \div 2, max_message_length - 1, max_message_length,
   max_message_length + 1}

ProfileLines == UNION {[1..n -> LineLens] : n \in 1..MaxLines}

RECURSIVE SumLens(_)
SumLens(lens) == IF lens = <<>> THEN 0 ELSE Head(lens) + SumLens(Tail(lens))

\* len(details_text): the lines and the line feeds between them
TextLen(lines) == SumLens(lines) + Len(lines) - 1

\* len(current_part): every line is added with a line feed
PartLen(part) == SumLens(part) + Len(part)

InitChunk ==
  /\ \E lines \in ProfileLines :
       calc = [fn |-> "split", stage |-> "start", handler |-> "none",
               text |-> lines, rest |-> <<>>, parts |-> <<>>,
               current_part |-> <<>>, sent |-> <<>>, split |-> FALSE]
  /\ session = [state |-> StateNone, keys |-> {}, data |-> EmptyData]
  /\ out = <<>>
  /\ call = NoCall
  /\ ev = [handler |-> "init"]
  /\ inflight = <<>>
  /\ hist = NoHist
  /\ peer = NoPeer

\* the display handlers return before the length test when the text has
\* fewer than 20 characters (lines 685, 795, 895); complete_survey has no
\* such test
ReachesLengthTest(handler) ==
  handler = "complete_survey" \/ TextLen(calc.text) >= MinDetailsLen

\* the length test with the limit itself counted as too long
SplitBegin_AtLimit ==
  /\ calc.stage = "start"
  /\ TextLen(calc.text) >= max_message_length
  /\ \E handler \in SplitHandlers :
       /\ ReachesLengthTest(handler)
       /\ calc' = [calc EXCEPT !.stage = "loop", !.handler = handler,
                               !.rest = calc.text, !.split = TRUE]
  /\ UNCHANGED <<session, out, call, ev, inflight, hist, peer>>

\* 'if len(details_text) > max_message_length:' taken; parts = [],
\* current_part = ""
SplitBegin ==
  /\ calc.stage = "start"
  /\ TextLen(calc.text) > max_message_length
  /\ \E handler \in SplitHandlers :
       /\ ReachesLengthTest(handler)
       /\ calc' = [calc EXCEPT !.stage = "loop", !.handler = handler,
                               !.rest = calc.text, !.split = TRUE]
  /\ UNCHANGED <<session, out, call, ev, inflight, hist, peer>>

\* the else branch: the text is sent as one message
SendWhole ==
  /\ calc.stage = "start"
  /\ TextLen(calc.text) <= max_message_length
  /\ \E handler \in SplitHandlers :
       /\ ReachesLengthTest(handler)
       /\ calc' = [calc EXCEPT !.stage = "sent", !.handler = handler,
                               !.parts = <<calc.text>>,
                               !.sent = <<TextLen(calc.text)>>]
  /\ UNCHANGED <<session, out, call, ev, inflight, hist, peer>>

\* loop body, 'if' branch: the line fits into the current part
SplitAppendLine ==
  /\ calc.stage = "loop"
  /\ calc.rest # <<>>
  /\ PartLen(calc.current_part) + Head(calc.rest) + 1 <= max_message_length
  /\ calc' = [calc EXCEPT !.current_part = Append(@, Head(calc.rest)),
                          !.rest = Tail(@)]
  /\ UNCHANGED <<session, out, call, ev, inflight, hist, peer>>

\* the 'else' branch cutting a line that does not fit into a message
SplitStartPart_CutsLine ==
  /\ calc.stage = "loop"
  /\ calc.rest # <<>>
  /\ ~(PartLen(calc.current_part) + Head(calc.rest) + 1 <= max_message_length)
  /\ calc' = [calc EXCEPT
       !.parts = Append(@, calc.current_part),
       !.current_part =
          IF Head(calc.rest) + 1 > max_message_length
          THEN <<max_message_length - 1>> ELSE <<Head(calc.rest)>>,
       !.rest =
          IF Head(calc.rest) + 1 > max_message_length
          THEN <<Head(calc.rest) - (max_message_length - 1)>> \o Tail(@)
          ELSE Tail(@)]
  /\ UNCHANGED <<session, out, call, ev, inflight, hist, peer>>

\* loop body, 'else' branch: the current part is closed as it is and the line
\* starts the next one
SplitStartPart ==
  /\ calc.stage = "loop"
  /\ calc.rest # <<>>
  /\ ~(PartLen(calc.current_part) + Head(calc.rest) + 1 <= max_message_length)
  /\ calc' = [calc EXCEPT !.parts = Append(@, calc.current_part),
                          !.current_part = <<Head(calc.rest)>>,
                          !.rest = Tail(@)]
  /\ UNCHANGED <<session, out, call, ev, inflight, hist, peer>>

\* after the loop: 'if current_part: parts.append(current_part)', then every
\* part is sent as a message
SplitSend ==
  /\ calc.stage = "loop"
  /\ calc.rest = <<>>
  /\ LET parts == IF PartLen(calc.current_part) > 0
                  THEN Append(calc.parts, calc.current_part)
                  ELSE calc.parts
     IN calc' = [calc EXCEPT !.stage = "sent", !.parts = parts,
                             !.sent = [i \in 1..Len(parts) |-> PartLen(parts[i])]]
  /\ UNCHANGED <<session, out, call, ev, inflight, hist, peer>>

NextChunk ==
  \/ SplitBegin
  \/ SendWhole
  \/ SplitAppendLine
  \/ SplitStartPart
  \/ SplitSend

SpecChunk == InitChunk /\ [][NextChunk]_vars

\* C20: for every profile text longer than 4000 characters, every chunk the
\* splitting loop produces (in each of the four handlers) has at most 4000
\* characters.
C20_ChunksWithinLimit ==
  (calc.fn = "split" /\ calc.stage = "sent"
     /\ TextLen(calc.text) > max_message_length)
  => \A i \in 1..Len(calc.sent) : calc.sent[i] <= max_message_length

\* the sequences of a sequence of sequences, joined
RECURSIVE Flatten(_)
Flatten(seqs) == IF seqs = <<>> THEN <<>> ELSE Head(seqs) \o Flatten(Tail(seqs))

\* C21: for every profile text the chunks sent, joined in sending order,
\* are the whole text, line by line and with no character dropped (the
\* splitting path adds one line feed at the end), and every chunk holds
\* whole lines of the text only.
C21_ChunksReproduceText ==
  (calc.fn = "split" /\ calc.stage = "sent")
  => /\ Flatten(calc.parts) = calc.text
     /\ SumLens(calc.sent)
          = TextLen(calc.text) + (IF calc.split THEN 1 ELSE 0)
     /\ Len(calc.sent) = Len(calc.parts)

\* a text over the limit was sent as two chunks or more, none of them empty
C21_Witness ==
  /\ calc.fn = "split"
  /\ calc.stage = "sent"
  /\ calc.split
  /\ Len(calc.parts) >= 2
  /\ \A i \in 1..Len(calc.parts) : calc.parts[i] # <<>>

\* C22: a profile text of at most 4000 characters (exactly 4000 included)
\* is sent as exactly one message, which is the stored text, and a text of
\* 4001 characters or more always takes the splitting path.
C22_SplitExactlyAboveLimit ==
  (calc.fn = "split" /\ calc.stage = "sent")
  => /\ calc.split <=> TextLen(calc.text) > max_message_length
     /\ ~calc.split => /\ calc.parts = <<calc.text>>
                       /\ calc.sent = <<TextLen(calc.text)>>

\* a text of exactly 4000 characters was sent whole by complete_survey
C22_Witness ==
  /\ calc.fn = "split"
  /\ calc.stage = "sent"
  /\ calc.handler = "complete_survey"
  /\ TextLen(calc.text) = max_message_length
  /\ Len(calc.sent) = 1

\* the handlers that display the profile, by the name the step records
DisplayHandlers == {"command_profile", "view_profile", "show_details"}

\* the kinds of the messages sent by the step
OutKinds(o) == {o[i].kind : i \in 1..Len(o)}

\* C23: whenever the stored profile details are missing, empty or shorter
\* than 20 characters, each display operation (profile command, view_profile
\* and show_details callbacks) reports that the profile was not found, shows
\* no profile, and leaves the FSM state and the session data as they were.
C23_MissingDetailsReported ==
  [][(/\ ev'.handler \in DisplayHandlers
      /\ Len(Get(Ctx, "profile_details", <<>>)) < MinDetailsLen)
     => /\ session' = session
        /\ "profile" \notin OutKinds(out')
        /\ OutKinds(out') \cap {"profile_not_found", "no_profile"} # {}]_vars

\* a completed profile whose stored text has 19 characters was asked for
\* and the error was reported
C23_Witness ==
  /\ ev.handler \in DisplayHandlers
  /\ Get(Ctx, "profile_completed", FALSE)
  /\ Len(Get(Ctx, "profile_details", <<>>)) = MinDetailsLen - 1
  /\ "profile_not_found" \in OutKinds(out)

\* ---------------------------------------------------------------------
\* The loading of the inventory questions in process_survey_answer
\* (lines 195-207): get_all_vasini_questions() returns the list, returns an
\* empty list, or raises, and then the handler goes on with [].
\* ---------------------------------------------------------------------
CatalogOutcomes == {"loaded", "empty", "raises"}

\* process_survey_answer with vasini_questions = []: the cancel text and the
\* demo branch do not read the list; vasini_questions[question_index]
\* (lines 255 and 317) raises IndexError
process_survey_answer_unloaded(c, text) ==
  IF text = CancelText
  THEN CancelSurvey(c)
  ELSE LET question_index == Get(c, "question_index", 0)
           answers == Get(c, "answers", <<>>)
           is_demo_questions == Get(c, "is_demo_questions", TRUE)
       IN IF is_demo_questions
          THEN AnswerDemo(c, text, question_index, answers)
          ELSE IF Get(c, "waiting_for_vasini_confirmation", FALSE)
          THEN (IF text = YesText THEN Raise(c)
                ELSE AnswerConfirmation(c, text, question_index))
          ELSE Raise(c)

CatApply(c, handler, text, catalog) ==
  /\ session' = [state |-> c.state, keys |-> c.keys, data |-> c.data]
  /\ out' = c.out
  /\ call' = c.call
  /\ ev' = [handler |-> handler, text |-> text, catalog |-> catalog]
  /\ UNCHANGED <<inflight, hist, peer, calc>>

InitCatalog ==
  /\ session = [state |-> StateNone, keys |-> {}, data |-> EmptyData]
  /\ out = <<>>
  /\ call = NoCall
  /\ ev = [handler |-> "init", text |-> <<>>, catalog |-> "loaded"]
  /\ inflight = <<>>
  /\ hist = NoHist
  /\ peer = NoPeer
  /\ calc = NoCalc

CatCommandSurvey ==
  /\ Sequential
  /\ session.state # StateAnswering
  /\ CatApply(command_survey(Ctx), "command_survey", SurveyText, "loaded")

CatProcessSurveyAnswer ==
  /\ Sequential
  /\ session.state = StateAnswering
  /\ \E text \in AnsweringTexts, catalog \in CatalogOutcomes :
       CatApply(IF catalog = "loaded" THEN process_survey_answer(Ctx, text)
                ELSE process_survey_answer_unloaded(Ctx, text),
                "process_survey_answer", text, catalog)

CatGatewayReturn ==
  /\ call.active
  /\ \E resp \in Responses :
       CatApply(complete_survey_return(Ctx, resp), "complete_survey", resp.details,
                "loaded")

NextCatalog ==
  \/ CatCommandSurvey
  \/ CatProcessSurveyAnswer
  \/ CatGatewayReturn

SpecCatalog == InitCatalog /\ [][NextCatalog]_vars

\* C24: when the inventory question list cannot be loaded or is empty,
\* process_survey_answer does not go on with the user's message: no answer
\* is recorded and no session field is advanced (the cancel text, handled
\* before the list is loaded, aside).
C24_NoProgressWithoutCatalog ==
  [][(/\ ev'.handler = "process_survey_answer"
      /\ ev'.catalog # "loaded"
      /\ ev'.text # CancelText)
     => session' = session]_vars

\* the entries of an answer mapping
Entries(answers) == {answers[i] : i \in 1..Len(answers)}

\* a demo answer is being handled: a message other than the cancel text
DemoAnswerStep ==
  /\ DemoPhase
  /\ ev'.handler = "process_survey_answer"
  /\ ev'.text # CancelText

\* the message is the answer stored under the id of the demo question at
\* the cursor and no entry of another id is added, removed or changed
DemoAnswerRecorded ==
  LET id == demo_questions[Cursor + 1].id
  IN /\ [id |-> id, val |-> ev'.text] \in Entries(Answers')
     /\ {e \in Entries(Answers') : e.id # id} = {e \in Entries(Answers) : e.id # id}
     /\ \A e, f \in Entries(Answers') : e.id = f.id => e = f

\* C25 as stated: in the demo phase every message other than the cancel
\* text is stored as the answer under the id of the demo question at the
\* cursor, no other entry is changed, and the cursor advances by exactly one.
C25_DemoAnswerAdvancesByOne ==
  [][DemoAnswerStep => (DemoAnswerRecorded /\ Cursor' = Cursor + 1)]_vars

\* C25, amended: in the demo phase every message other than the cancel
\* text, whatever its content, is stored as the answer under the id of the
\* demo question at the cursor and no other entry is changed; the cursor
\* advances by exactly one, except at the last demo question, where it is
\* reset to 0.
C25_DemoAnswerRecordedAtCursor ==
  [][DemoAnswerStep
     => /\ DemoAnswerRecorded
        /\ Cursor' = IF Cursor + 1 < Len(demo_questions) THEN Cursor + 1 ELSE 0]_vars

\* the affirmative text was sent as the answer to the first demo question
\* and was recorded under its id
C25_Witness ==
  /\ ev.handler = "process_survey_answer"
  /\ ev.phase = "demo"
  /\ ev.cursor = 0
  /\ ev.text = YesText
  /\ Cursor = 1
  /\ [id |-> demo_questions[1].id, val |-> YesText] \in Entries(Answers)

\* the ids of the entries of an answer mapping
EntryIds(answers) == {e.id : e \in Entries(answers)}

\* the messages that present an inventory question
InventoryQuestionKinds == {"vasini_question", "vasini_reprompt"}

\* the answer to the last demo question is being handled
LastDemoAnswerStep == DemoAnswerStep /\ Cursor + 1 = Len(demo_questions)

\* C26: exactly when the answer to the last demo question is recorded the
\* session enters the inventory confirmation step: is_demo_questions false,
\* waiting_for_vasini_confirmation true, question_index 0, every demo answer
\* kept; and no inventory question is presented before the confirmation is
\* given.
C26_LastDemoAnswerEntersConfirmation ==
  [][/\ LastDemoAnswerStep
          => /\ ConfirmationStep'
             /\ ~IsDemo' /\ Waiting' /\ Cursor' = 0
             /\ {e \in Entries(Answers) : e.id # demo_questions[Cursor + 1].id}
                  \subseteq Entries(Answers')
             /\ EntryIds(Answers') = {demo_questions[i].id : i \in 1..Len(demo_questions)}
             /\ OutKinds(out') \cap InventoryQuestionKinds = {}
     /\ (~ConfirmationStep /\ ConfirmationStep') => LastDemoAnswerStep
     /\ (ConfirmationStep /\ ~(ev'.handler = "process_survey_answer"
                                 /\ ev'.text = YesText))
          => OutKinds(out') \cap InventoryQuestionKinds = {}]_vars

\* the last demo answer was recorded and the session waits for the
\* confirmation
C26_Witness ==
  /\ ConfirmationStep
  /\ ev.handler = "process_survey_answer"
  /\ ev.phase = "demo"
  /\ ev.cursor = Len(demo_questions) - 1
  /\ Cursor = 0
  /\ Len(Answers) = Len(demo_questions)
  /\ out = <<Msg("vasini_intro", 0, "")>>

\* C27: at the inventory confirmation step the affirmative text moves the
\* session to the inventory phase (waiting_for_vasini_confirmation false)
\* with question_index still 0 and the answers unchanged, and presents
\* inventory question 1; the affirmative text is not recorded as an answer.
C27_ConfirmationStartsInventory ==
  [][(/\ ConfirmationStep
      /\ ev'.handler = "process_survey_answer"
      /\ ev'.text = YesText)
     => /\ InventoryPhase'
        /\ ~Waiting'
        /\ Cursor = 0 /\ Cursor' = 0
        /\ Answers' = Answers
        /\ \A e \in Entries(Answers') : e.id # vasini_questions[1].id
        /\ out' = <<Msg("vasini_question", 0, "")>>]_vars

\* the confirmation was given and the first inventory question is asked
C27_Witness ==
  /\ InventoryPhase
  /\ ev.handler = "process_survey_answer"
  /\ ev.phase = "confirmation"
  /\ ev.text = YesText
  /\ Cursor = 0
  /\ Len(Answers) = Len(demo_questions)
  /\ out = <<Msg("vasini_question", 0, "")>>

\* a message that is neither the affirmative text nor the cancel text is
\* being handled at the confirmation step
OtherTextAtConfirmation ==
  /\ ConfirmationStep
  /\ ev'.handler = "process_survey_answer"
  /\ ev'.text \notin {YesText, CancelText}

\* C28: at the inventory confirmation step a message that is neither the
\* affirmative text nor the cancel text leaves the FSM state,
\* question_index, answers, is_demo_questions and
\* waiting_for_vasini_confirmation unchanged: the session stays at the
\* confirmation step.
C28_OtherTextKeepsConfirmation ==
  [][OtherTextAtConfirmation
     => /\ session'.state = session.state
        /\ Cursor' = Cursor
        /\ Answers' = Answers
        /\ IsDemo' = IsDemo
        /\ Waiting' = Waiting
        /\ ConfirmationStep']_vars

\* an option button was pressed at the confirmation step and the session
\* still waits for the confirmation
C28_Witness ==
  /\ ConfirmationStep
  /\ ev.handler = "process_survey_answer"
  /\ ev.phase = "confirmation"
  /\ ev.text = ButtonA
  /\ Len(Answers) = Len(demo_questions)

\* C29: at the inventory confirmation step a message that is neither the
\* affirmative text nor the cancel text is answered with a re-prompt: the
\* handler completes normally and sends a message asking to choose again,
\* and does not end in an unhandled error with no reply.
C29_OtherTextIsReprompted ==
  [][OtherTextAtConfirmation
     => /\ "unhandled_exception" \notin OutKinds(out')
        /\ "vasini_reprompt" \in OutKinds(out')]_vars

\* an inventory answer in which the parser finds a letter is being handled
ParsedInventoryStep ==
  /\ InventoryPhase
  /\ ev'.handler = "process_survey_answer"
  /\ ev'.text # CancelText
  /\ parse_option(ev'.text) # NoOption

\* the answers with the parsed letter under the id of the question at the
\* cursor
WithParsedAnswer ==
  DictSet(Answers, vasini_questions[Cursor + 1].id, <<parse_option(ev'.text)>>)

\* C30: in the inventory phase a successfully parsed answer records the
\* parsed letter under the id of the question at the cursor and advances the
\* cursor by one; complete_survey is invoked exactly when the advanced cursor
\* equals the number of inventory questions, and otherwise the question at
\* the new cursor is presented and the new cursor and answers are persisted.
C30_ParsedAnswerRecorded ==
  [][/\ ParsedInventoryStep
          => IF Cursor + 1 = Len(vasini_questions)
             THEN /\ call'.active
                  /\ call'.answers = WithParsedAnswer
                  /\ "processing" \in OutKinds(out')
             ELSE /\ ~call'.active
                  /\ InventoryPhase'
                  /\ Cursor' = Cursor + 1
                  /\ Answers' = WithParsedAnswer
                  /\ out'[Len(out')] = Msg("vasini_question", Cursor + 1, "")
     /\ (~call.active /\ call'.active)
          => (ParsedInventoryStep /\ Cursor + 1 = Len(vasini_questions))]_vars

\* the letter typed by hand was recorded for the first inventory question
\* and the second one is asked
C30_Witness ==
  /\ InventoryPhase
  /\ ev.handler = "process_survey_answer"
  /\ ev.phase = "inventory"
  /\ ev.cursor = 0
  /\ ev.text = LowerB
  /\ Cursor = 1
  /\ [id |-> vasini_questions[1].id, val |-> <<parse_option(LowerB)>>]
       \in Entries(Answers)
  /\ out[Len(out)] = Msg("vasini_question", 1, "")

\* C40: for every profile text longer than 4000 characters the splitting
\* loop produces no empty chunk: every part sent as a message has at least
\* one character, also when the first line is itself longer than the limit.
C40_NoEmptyChunk ==
  (calc.fn = "split" /\ calc.stage = "sent" /\ calc.split)
  => \A i \in 1..Len(calc.sent) : calc.sent[i] > 0

\* ---------------------------------------------------------------------
\* The survey over a catalog whose entries may lack an interpretation: the
\* list get_all_vasini_questions() returns is fixed for a run and is either
\* the catalog as specified or one in which no question has a text for "B".
\* ---------------------------------------------------------------------
partial_questions ==
  [i \in 1..NumVasini |->
    [vasini_questions[i] EXCEPT !.interpretations = {"A", "C", "D"}]]

Catalogs == {vasini_questions, partial_questions}

\* the list of inventory questions of the run
Catalog == IF calc.fn = "catalog" THEN calc.questions ELSE vasini_questions

\* process_survey_answer(message, state) for the list of the run
process_survey_answer_in(questions, c, text) ==
  IF text = CancelText
  THEN CancelSurvey(c)
  ELSE LET question_index == Get(c, "question_index", 0)
           answers == Get(c, "answers", <<>>)
           is_demo_questions == Get(c, "is_demo_questions", TRUE)
       IN IF is_demo_questions
          THEN AnswerDemo(c, text, question_index, answers)
          ELSE IF Get(c, "waiting_for_vasini_confirmation", FALSE)
          THEN AnswerConfirmation(c, text, question_index)
          ELSE AnswerVasiniIn(questions, c, text, question_index, answers)

InitInterp ==
  /\ session = [state |-> StateNone, keys |-> {}, data |-> EmptyData]
  /\ out = <<>>
  /\ call = NoCall
  /\ ev = [handler |-> "init", text |-> <<>>, result |-> "", phase |-> "idle",
           cursor |-> 0]
  /\ inflight = <<>>
  /\ hist = NoHist
  /\ peer = NoPeer
  /\ \E questions \in Catalogs : calc = [fn |-> "catalog", questions |-> questions]

IntApply(c, handler, text) ==
  /\ session' = [state |-> c.state, keys |-> c.keys, data |-> c.data]
  /\ out' = c.out
  /\ call' = c.call
  /\ ev' = [handler |-> handler, text |-> text, result |-> "", phase |-> Phase,
            cursor |-> Cursor]
  /\ UNCHANGED <<inflight, hist, peer, calc>>

IntCommandSurvey ==
  /\ Sequential
  /\ session.state # StateAnswering
  /\ IntApply(command_survey(Ctx), "command_survey", SurveyText)

IntProcessSurveyAnswer ==
  /\ Sequential
  /\ session.state = StateAnswering
  /\ \E text \in AnsweringTexts :
       IntApply(process_survey_answer_in(calc.questions, Ctx, text),
                "process_survey_answer", text)

IntGatewayReturn ==
  /\ call.active
  /\ \E resp \in Responses :
       IntApply(complete_survey_return(Ctx, resp), "complete_survey", resp.details)

NextInterp ==
  \/ IntCommandSurvey
  \/ IntProcessSurveyAnswer
  \/ IntGatewayReturn

SpecInterp == InitInterp /\ [][NextInterp]_vars

\* the places of the messages of the given kinds among the messages sent
Places(o, kinds) == {i \in 1..Len(o) : o[i].kind \in kinds}

\* C31: for every successfully parsed inventory answer the interpretation
\* of the chosen option is emitted before the next question is presented or
\* the completion starts; no question is presented and no completion starts
\* for an answer whose interpretation was not emitted.
C31_InterpretationBeforeNext ==
  [][ParsedInventoryStep
     => /\ Msg("interpretation", Cursor, parse_option(ev'.text))
             \in {out'[i] : i \in 1..Len(out')}
        /\ \A i \in Places(out', {"interpretation"}),
              j \in Places(out', {"vasini_question", "processing"}) : i < j]_vars

\* C32: in every reachable state each inventory answer stored in the answer
\* set (or handed to the completion) is an option letter that is a key of
\* the options and of the interpretations of the question it is recorded for.
C32_AnswersAreCatalogKeys ==
  \A e \in Entries(Answers) \cup Entries(call.answers) :
    e.id[1] = "vasini"
      => /\ Len(e.val) = 1
         /\ e.val[1] \in Catalog[e.id[2]].options
         /\ e.val[1] \in Catalog[e.id[2]].interpretations

\* ---------------------------------------------------------------------
\* A survey run to its end: the user never cancels, confirms the inventory,
\* and goes on answering; generate_profile returns.  Messages that do not
\* advance the survey may come in between at any time.
\* ---------------------------------------------------------------------
InitLive ==
  /\ LET c == command_survey(NewCtx([state |-> StateNone, keys |-> {},
                                     data |-> EmptyData], NoCall))
     IN /\ session = [state |-> c.state, keys |-> c.keys, data |-> c.data]
        /\ out = c.out
        /\ call = c.call
  /\ ev = [handler |-> "command_survey", text |-> SurveyText, result |-> "",
           phase |-> "idle", cursor |-> 0]
  /\ inflight = <<>>
  /\ hist = NoHist
  /\ peer = NoPeer
  /\ calc = NoCalc

\* an answer to the demo question at the cursor
LvDemoAnswer ==
  /\ DemoPhase
  /\ \E text \in AnsweringTexts \ {CancelText} :
       \E r \in {process_survey_answer(Ctx, text)} :
         Apply(r, "process_survey_answer", text)

\* the affirmative text at the confirmation step
LvConfirm ==
  /\ ConfirmationStep
  /\ \E r \in {process_survey_answer(Ctx, YesText)} :
       Apply(r, "process_survey_answer", YesText)

\* another text at the confirmation step
LvOtherAtConfirmation ==
  /\ ConfirmationStep
  /\ \E text \in AnsweringTexts \ {CancelText, YesText} :
       \E r \in {process_survey_answer(Ctx, text)} :
         Apply(r, "process_survey_answer", text)

\* an inventory answer in which the parser finds a letter
LvParseable ==
  /\ InventoryPhase
  /\ \E text \in {t \in AnsweringTexts \ {CancelText} : parse_option(t) # NoOption} :
       \E r \in {process_survey_answer(Ctx, text)} :
         Apply(r, "process_survey_answer", text)

\* an inventory answer in which the parser finds no letter
LvUnparseable ==
  /\ InventoryPhase
  /\ \E text \in {t \in AnsweringTexts \ {CancelText} : parse_option(t) = NoOption} :
       \E r \in {process_survey_answer(Ctx, text)} :
         Apply(r, "process_survey_answer", text)

\* generate_profile returns a response
LvGatewayReturn ==
  /\ call.active
  /\ \E resp \in {p \in Responses : p.ok} :
       \E c \in {complete_survey_return(Ctx, resp)} :
         ApplyResult(c, "complete_survey", resp.details,
                     IF resp.has THEN "details" ELSE "no_details")

NextLive ==
  \/ LvDemoAnswer
  \/ LvConfirm
  \/ LvOtherAtConfirmation
  \/ LvParseable
  \/ LvUnparseable
  \/ LvGatewayReturn

\* the user goes on answering and the gateway returns
SpecLive ==
  /\ InitLive
  /\ [][NextLive]_vars
  /\ WF_vars(LvDemoAnswer)
  /\ WF_vars(LvConfirm)
  /\ WF_vars(LvParseable)
  /\ WF_vars(LvGatewayReturn)

\* the place of a phase in a survey run
PhaseRank ==
  CASE Phase = "demo" -> 1
    [] Phase = "confirmation" -> 2
    [] Phase = "inventory" -> 3
    [] Phase = "completing" -> 4
    [] Phase = "completed" -> 5
    [] OTHER -> 0

\* C33: from a fresh survey start with a non-empty catalog, if the user
\* never cancels, gives the affirmative text at the confirmation step,
\* eventually sends a parseable answer to every inventory question and
\* generate_profile eventually returns a response, the session eventually
\* reaches the completed phase (FSM state none, profile_completed true),
\* passing through the demo, confirmation and inventory phases in that order.
C33_SurveyRunsToCompletion ==
  /\ PhaseRank = 1
  /\ [][PhaseRank' \in {PhaseRank, PhaseRank + 1}]_vars
  /\ <>(session.state = StateNone /\ ProfileCompleted /\ ~call.active)

\* the run has ended: every question has its answer and the profile is
\* marked completed
C33_Witness ==
  /\ ev.handler = "complete_survey"
  /\ session.state = StateNone
  /\ ProfileCompleted
  /\ Len(Answers) = Len(demo_questions) + Len(vasini_questions)

\* the key is not in the session data, or holds the given empty value
Unset(key, empty) == key \notin session.keys \/ session.data[key] = empty

\* C34: in every reachable state in which profile_completed is not true
\* (right after a confirmed restart included) no result of a previous
\* completion remains in the session: personality_type, secondary_type and
\* type_counts are unset and profile_text and profile_details are empty or
\* unset.
C34_NoResultWithoutCompletedProfile ==
  ~ProfileCompleted
    => /\ Unset("personality_type", NoType)
       /\ Unset("secondary_type", NoType)
       /\ "type_counts" \notin session.keys
       /\ Unset("profile_text", <<>>)
       /\ Unset("profile_details", <<>>)

\* the session data hold a survey that was begun and not completed: answers
\* without a completed profile, or a cursor past the first question
PartialSurvey == ~ProfileCompleted /\ (Answers # <<>> \/ Cursor > 0)

\* C35: in every reachable state in which the FSM state is not
\* answering_questions and no completion is in progress, the session holds
\* no partial survey: no non-empty incomplete answer set and no in-progress
\* cursor; the main_menu callback handled during a survey does not leave
\* the session idle with the partial answers stored.
C35_IdleHoldsNoPartialSurvey ==
  (session.state # StateAnswering /\ ~call.active) => ~PartialSurvey

\* the step just taken handled the cancel text while complete_survey was
\* awaiting generate_profile, and complete_survey still awaits it
CancelledWhileCompleting ==
  /\ call.active
  /\ ev.handler = "process_survey_answer"
  /\ ev.text = CancelText
  /\ ev.phase = "completing"

\* C36: a cancel handled while complete_survey is suspended waiting for
\* generate_profile is not undone: when the gateway later returns
\* successfully the session does not become completed and the discarded
\* answers are not written back into the session.
C36_CancelNotUndoneByGatewayReturn ==
  [][(CancelledWhileCompleting /\ ev'.handler = "complete_survey"
        /\ ev'.result # "raised")
       => (~ProfileCompleted' /\ Answers' = <<>>)]_vars

\* ---------------------------------------------------------------------
\* The cancel triggers.  Besides the cancel button text handled inside
\* process_survey_answer, the router registers /cancel and the short cancel
\* text for cancel_survey_command (lines 962-964), after
\* process_survey_answer (line 171).
\* ---------------------------------------------------------------------
\* /cancel and the short cancel text while answering_questions: the state
\* filter of process_survey_answer, registered first, takes the message
CancelCommandWhileAnswering ==
  /\ Sequential
  /\ session.state = StateAnswering
  /\ Apply(process_survey_answer(Ctx, CancelCommandText),
           "process_survey_answer", CancelCommandText)

NextCancel ==
  \/ CommandSurvey
  \/ ProcessSurveyAnswer
  \/ CancelSurveyCommand
  \/ CancelCommandWhileAnswering
  \/ GatewayReturn

SpecCancel == Init /\ [][NextCancel]_vars

\* C37: every cancel trigger returns an in-progress survey to idle: when the
\* FSM state is answering_questions, /cancel and the short cancel text
\* cancel the survey (state and data cleared) like the cancel button,
\* instead of being consumed by process_survey_answer and recorded as an
\* answer; when no survey is active, cancel_survey_command changes nothing.
C37_EveryCancelTriggerCancels ==
  [][/\ (session.state = StateAnswering /\ ev'.text = CancelCommandText)
         => (session'.state = StateNone /\ session'.keys = {})
     /\ (session.state # StateAnswering /\ ev'.text = CancelCommandText)
         => session' = session]_vars

\* ---------------------------------------------------------------------
\* start_survey overlapping other handlers.  start_survey reads
\* profile_completed (lines 61-64), awaits the sending of the intro and of
\* question 1 (lines 88-109) and only then sets the state and writes the
\* cursor (lines 111-118); its callback has no state filter, so it can be
\* under way while complete_survey awaits the gateway.
\* ---------------------------------------------------------------------
\* the callback data of the start button, marking the invocation under way
StartSurveyData == <<"start_survey">>

\* start_survey_callback up to its first await after get_data: with a
\* completed profile it only sends the prompt and ends, otherwise it is
\* suspended with has_profile False read
RcStartSurveyRead ==
  /\ inflight = <<>>
  /\ IF Get(Ctx, "profile_completed", FALSE)
     THEN /\ OvStep(start_survey_callback(Ctx), "start_survey", <<>>, "")
          /\ UNCHANGED inflight
     ELSE /\ inflight' = <<[text |-> StartSurveyData, keys |-> session.keys,
                            data |-> session.data]>>
          /\ ev' = [handler |-> "get_data", text |-> StartSurveyData,
                    result |-> "", phase |-> Phase, cursor |-> Cursor]
          /\ UNCHANGED <<session, out, call, peer, calc>>
  /\ UNCHANGED hist

\* start_survey runs on from the has_profile it read: set_state and
\* update_data on the store as it is by then
RcStartSurveyFinish ==
  /\ inflight # <<>>
  /\ OvStep(start_survey_callback(
              NewCtx([state |-> session.state, keys |-> inflight[1].keys,
                      data |-> inflight[1].data], call)),
            "start_survey", <<>>, "")
  /\ inflight' = <<>>
  /\ UNCHANGED hist

NextRace ==
  \/ CommandSurvey
  \/ ProcessSurveyAnswer
  \/ GatewayReturn
  \/ RcStartSurveyRead
  \/ RcStartSurveyFinish

SpecRace == Init /\ [][NextRace]_vars

\* C38: in every reachable state in which the FSM state is
\* answering_questions, profile_completed is false, so a cancel during a
\* survey, which clears the whole session, never destroys a completed
\* profile that the user has not confirmed to reset.
C38_NoCompletedProfileWhileAnswering ==
  session.state = StateAnswering => ~ProfileCompleted

\* C39: advice is generated and appended to used_advices only for a session
\* that holds a completed profile: while profile_completed is false no
\* advice entry point (the advice command, the get_advice callback) sends
\* advice or changes the history.
C39_AdviceOnlyWithCompletedProfile ==
  [][(~ProfileCompleted /\ ev'.handler \in {"command_advice", "get_advice"})
       => /\ Places(out', {"advice"}) = {}
          /\ session'.data["used_advices"] = session.data["used_advices"]
          /\ ("used_advices" \in session'.keys) = ("used_advices" \in session.keys)]_vars

====
